---- MODULE Spec2Model ----
(***************************************************************************)
(* A model of the ruserf node: the Lamport clock (types/src/clock.rs), the *)
(* memberlist delegate (core/src/serf/delegate.rs) and the intent, event   *)
(* and transport handlers the delegate calls into.                         *)
(***************************************************************************)
EXTENDS Integers, Sequences, FiniteSets, TLC

(***************************************************************************)
(* Bounds of the model.                                                    *)
(***************************************************************************)
\* Largest Lamport time carried by a message.
MaxTime == 2
\* Number of threads that share one LamportClock.
NumThreads == 2
\* Length of the event ring (Options::event_buffer_size).
EventBufferSize == 2
\* Length of the ring of seen queries (Options::query_buffer_size).
QueryBufferSize == 2

Threads == 1..NumThreads
Nodes == {"A", "B"}
\* Clock values the model lets a clock reach (one past the largest message time).
ClockCap == MaxTime + 1

Max(a, b) == IF a >= b THEN a ELSE b

VARIABLES
  clock,          \* Serf.inner.clock (the membership LamportClock)
  event_clock,    \* Serf.inner.event_clock
  query_clock,    \* Serf.inner.query_clock
  members,        \* Serf.inner.members: states, failed_members, left_members, recent_intents
  event_core,     \* Serf.inner.event_core: min_time and the event ring
  event_join_ignore, \* Serf.inner.event_join_ignore
  event_tx,       \* how often each user event was sent to the user event channel
  merge,          \* the merge_remote_state call in progress, if any
  last,           \* the latest handler call: its message, what it saw and what it returned
  threads,        \* per thread: its position in a LamportClock call on `clock`
  last_time,      \* the value returned by the latest time() call on `clock`
  pending,        \* intents in flight: gossip that has yet to reach this node
  sent,           \* the intents that were put in flight, and the table they met
  query_core,     \* Serf.inner.query_core: min_time and the ring of seen queries
  queues,         \* Serf.inner.broadcasts, event_broadcasts and query_broadcasts
  out,            \* what the latest broadcast_messages call was given and returned
  responders,     \* the queries handed to a handler, and the respond calls on them
  reaper,         \* the reaper's timer, the leave times and the MemberReap events
  snapshot,       \* the clocks last written to the snapshot log, and whether the node booted from it
  join_result,    \* what the latest join call returned
  stage,          \* the internal-query stage: its inbox and the user event channel behind it
  coord_core,     \* Serf.inner.coord_core: the coordinate client and the coordinate cache
  serf,           \* SerfDelegate.serf: the once-set handle of the Serf root
  callbacks       \* per transport task: the callback it is in and the handle this() gave it

vars == <<clock, event_clock, query_clock, members, event_core, event_join_ignore,
          event_tx, merge, last, threads, last_time, pending, sent, query_core,
          queues, out, responders, reaper, snapshot, join_result, stage,
          coord_core, serf, callbacks>>

\* The parts of the node that only their own actions touch.
service_vars == <<stage, coord_core, serf, callbacks>>

\* What a LamportClock call leaves alone.
node_vars == <<event_clock, query_clock, members, event_core, event_join_ignore,
               event_tx, merge, last, pending, sent, query_core, queues, out,
               responders, reaper, snapshot, join_result, service_vars>>
\* What a callback of the delegate leaves alone.
other_vars == <<threads, last_time, sent, out, responders, reaper, snapshot, join_result,
                service_vars>>

(***************************************************************************)
(* LamportClock (clock.rs)                                                 *)
(***************************************************************************)

\* A witness that never moves the clock.
witness_never(c, t) == c

\* LamportClock::witness run to completion with no concurrent writer:
\* the value of a clock that read c after witness(t).
witness(c, t) == IF c >= t THEN c ELSE t + 1

(***************************************************************************)
(* Membership table and intent handlers                                    *)
(***************************************************************************)

\* The slot of a NodeId that has no Member in `states`.
NoMember == [status |-> "NoMember", status_time |-> 0]
\* The slot of a NodeId that has no entry in the recent-intent ring.
NoIntent == [ty |-> "NoIntent", ltime |-> 0]

EmptyMembers ==
  [states |-> [n \in Nodes |-> NoMember],
   failed_members |-> {},
   left_members |-> {},
   recent_intents |-> [n \in Nodes |-> NoIntent]]

KnownNodes(m) == {n \in Nodes : m.states[n] # NoMember}

\* A ring in which the latest intent to arrive replaces the one held.
upsert_intent_latest(intents, node, ty, ltime) ==
  [intents EXCEPT ![node] = [ty |-> ty, ltime |-> ltime]]

\* Stash an intent for an unknown node, keeping the higher ltime.
upsert_intent(intents, node, ty, ltime) ==
  IF intents[node] = NoIntent \/ ltime > intents[node].ltime
  THEN [intents EXCEPT ![node] = [ty |-> ty, ltime |-> ltime]]
  ELSE intents

\* A purge that forgets the Member but leaves the failed and left tables alone.
prune_states_only(m, node) ==
  [m EXCEPT !.states[node] = NoMember,
            !.recent_intents[node] = NoIntent]

\* Purge a node from all tables and forget it.
prune(m, node) ==
  [m EXCEPT !.states[node] = NoMember,
            !.failed_members = @ \ {node},
            !.left_members = @ \ {node},
            !.recent_intents[node] = NoIntent]

\* A handler that takes every intent for a known node as fresh.
IsStaleNever(member, ltime) == FALSE

\* A handler that takes an intent at the member's own ltime as fresh.
IsStaleBelow(member, ltime) == ltime < member.status_time

\* An intent is stale unless its ltime is strictly greater than the member's.
IsStale(member, ltime) == ltime <= member.status_time

\* handle_node_leave_intent on the membership table: the new table and the
\* rebroadcast decision.
handle_node_leave_intent(m, msg) ==
  LET member == m.states[msg.node] IN
  IF member = NoMember
  THEN [members |-> [m EXCEPT !.recent_intents =
                       upsert_intent(@, msg.node, "Leave", msg.ltime)],
        rebroadcast |-> TRUE]
  ELSE IF IsStale(member, msg.ltime)
  THEN [members |-> m, rebroadcast |-> FALSE]
  ELSE
    LET m1 ==
          CASE member.status = "Alive" ->
                 [m EXCEPT !.states[msg.node] =
                    [status |-> "Leaving", status_time |-> msg.ltime]]
            [] member.status = "Failed" ->
                 [m EXCEPT !.states[msg.node] =
                              [status |-> "Left", status_time |-> msg.ltime],
                           !.failed_members = @ \ {msg.node},
                           !.left_members = @ \cup {msg.node}]
            [] OTHER ->
                 [m EXCEPT !.states[msg.node].status_time = msg.ltime]
    IN [members |-> IF msg.prune THEN prune(m1, msg.node) ELSE m1,
        rebroadcast |-> TRUE]

\* handle_node_join_intent on the membership table.
handle_node_join_intent(m, msg) ==
  LET member == m.states[msg.node] IN
  IF member = NoMember
  THEN [members |-> [m EXCEPT !.recent_intents =
                       upsert_intent(@, msg.node, "Join", msg.ltime)],
        rebroadcast |-> TRUE]
  ELSE IF IsStale(member, msg.ltime)
  THEN [members |-> m, rebroadcast |-> FALSE]
  ELSE
    LET m1 ==
          CASE member.status = "Leaving" ->
                 [m EXCEPT !.states[msg.node] =
                    [status |-> "Alive", status_time |-> msg.ltime]]
            [] member.status \in {"Failed", "Left"} ->
                 [m EXCEPT !.states[msg.node] =
                              [status |-> "Alive", status_time |-> msg.ltime],
                           !.failed_members = @ \ {msg.node},
                           !.left_members = @ \ {msg.node}]
            [] OTHER ->
                 [m EXCEPT !.states[msg.node].status_time = msg.ltime]
    IN [members |-> m1, rebroadcast |-> TRUE]

\* handle_node_join: the transport announces the node alive. An unknown node
\* gets its Member (None -> Alive); a Failed one comes back (Failed -> Alive).
handle_node_join(m, node) ==
  LET member == m.states[node] IN
  CASE member = NoMember ->
         [m EXCEPT !.states[node] = [status |-> "Alive", status_time |-> 0],
                   !.recent_intents[node] = NoIntent]
    [] member.status = "Failed" ->
         [m EXCEPT !.states[node].status = "Alive",
                   !.failed_members = @ \ {node}]
    [] OTHER -> m

\* A transport that reports every known node gone as Left.
handle_node_leave_as_left(m, node) ==
  IF m.states[node] = NoMember THEN m
  ELSE [m EXCEPT !.states[node].status = "Left",
                 !.failed_members = @ \ {node},
                 !.left_members = @ \cup {node}]

\* handle_node_leave: the transport reports the node gone (Leaving -> Left once
\* the removal is confirmed, Alive -> Failed for a lost peer).
handle_node_leave(m, node) ==
  LET member == m.states[node] IN
  CASE member.status = "Leaving" ->
         [m EXCEPT !.states[node].status = "Left",
                   !.left_members = @ \cup {node}]
    [] member.status = "Alive" ->
         [m EXCEPT !.states[node].status = "Failed",
                   !.failed_members = @ \cup {node}]
    [] OTHER -> m

(***************************************************************************)
(* Event ring and the user event handler                                   *)
(***************************************************************************)

Names == {"deploy", "build"}
NoBucket == [ltime |-> 0, events |-> {}]
EmptyEventCore ==
  [min_time |-> 0, buffer |-> [i \in 0..(EventBufferSize - 1) |-> NoBucket]]

\* The bucket already holds this (name, payload) at this ltime.
IsDuplicate(bucket, msg) == bucket.ltime = msg.ltime /\ msg.name \in bucket.events

\* The event predates event_min_time or has fallen out of the ring.
TooOld(ec, now, msg) ==
  msg.ltime < ec.min_time \/ msg.ltime <= now - EventBufferSize

\* handle_user_event on the event ring, with the event clock already witnessed
\* (now): the new ring and whether the event is delivered and rebroadcast.
handle_user_event(ec, now, msg) ==
  LET idx == msg.ltime % EventBufferSize
      bucket == ec.buffer[idx]
  IN
  IF TooOld(ec, now, msg) \/ IsDuplicate(bucket, msg)
  THEN [event_core |-> ec, rebroadcast |-> FALSE]
  ELSE [event_core |->
          [ec EXCEPT !.buffer[idx] =
             IF bucket.events # {} /\ bucket.ltime = msg.ltime
             THEN [bucket EXCEPT !.events = @ \cup {msg.name}]
             ELSE [ltime |-> msg.ltime, events |-> {msg.name}]],
        rebroadcast |-> TRUE]

(***************************************************************************)
(* Messages                                                                *)
(***************************************************************************)

NoMsg == [ty |-> "None", node |-> "A", ltime |-> 0, prune |-> FALSE, name |-> "deploy"]
JoinMessage(n, t) == [NoMsg EXCEPT !.ty = "Join", !.node = n, !.ltime = t]
LeaveMessage(n, t, p) == [NoMsg EXCEPT !.ty = "Leave", !.node = n, !.ltime = t, !.prune = p]
UserEventMessage(t, nm) == [NoMsg EXCEPT !.ty = "UserEvent", !.ltime = t, !.name = nm]

IntentMessages ==
  {JoinMessage(n, t) : n \in Nodes, t \in 0..MaxTime}
    \cup {LeaveMessage(n, t, p) : n \in Nodes, t \in 0..MaxTime, p \in BOOLEAN}
UserEventMessages == {UserEventMessage(t, nm) : t \in 0..MaxTime, nm \in Names}
EventKeys == [ltime : 0..MaxTime, name : Names]
EventKey(msg) == [ltime |-> msg.ltime, name |-> msg.name]

(***************************************************************************)
(* Queries and the ring of seen queries                                    *)
(***************************************************************************)

QueryIds == {"q1", "q2"}
QueryMessage(t, i) == [ty |-> "Query", ltime |-> t, id |-> i]
QueryResponseMessage(t, i, from) ==
  [ty |-> "QueryResponse", ltime |-> t, id |-> i, from |-> from]
QueryMessages == {QueryMessage(t, i) : t \in 0..MaxTime, i \in QueryIds}
QueryResponseMessages ==
  {QueryResponseMessage(t, i, n) : t \in 0..MaxTime, i \in QueryIds, n \in Nodes}

QueryKey(msg) == [ltime |-> msg.ltime, id |-> msg.id]
EmptyQueryCore == [min_time |-> 0, buffer |-> <<>>]

\* A ring that never lets an entry go.
remember_every_query(buffer, key) == Append(buffer, key)

\* Enter a query in the ring; the oldest entry leaves a full ring.
remember_query(buffer, key) ==
  IF Len(buffer) < QueryBufferSize
  THEN Append(buffer, key)
  ELSE Append(Tail(buffer), key)

\* handle_query on the ring of seen queries, with the query clock already
\* witnessed: a query older than query_min_time or seen before is dropped,
\* any other is remembered, handed to its handler and rebroadcast.
handle_query(qc, msg) ==
  IF \/ msg.ltime < qc.min_time
     \/ \E i \in 1..Len(qc.buffer) : qc.buffer[i] = QueryKey(msg)
  THEN [query_core |-> qc, rebroadcast |-> FALSE]
  ELSE [query_core |-> [qc EXCEPT !.buffer = remember_query(@, QueryKey(msg))],
        rebroadcast |-> TRUE]

(***************************************************************************)
(* Broadcast queues                                                        *)
(***************************************************************************)

\* The three queues, empty. The transport takes broadcasts from them at its
\* own pace; a specification that does not follow the queues starts them
\* untracked, and a broadcast queued on untracked queues leaves no trace.
EmptyQueues ==
  [tracked |-> TRUE, broadcasts |-> <<>>, event_broadcasts |-> <<>>,
   query_broadcasts |-> <<>>]
UntrackedQueues == [EmptyQueues EXCEPT !.tracked = FALSE]

\* queue.queue_broadcast(SerfBroadcast { msg, notify_tx: None })
queue_broadcast(q, queue, msg) ==
  IF q.tracked THEN [q EXCEPT ![queue] = Append(@, msg)] ELSE q

(***************************************************************************)
(* Bytes on the wire                                                       *)
(***************************************************************************)

\* What decode_message or decode_node makes of bytes that are no message.
DecodeError == [ty |-> "DecodeError"]
\* A node on the wire: a length byte, then that many bytes of id.
encode_node(id) == <<Len(id)>> \o id

\* decode_node on a slice: the bytes consumed and the node, or an error when
\* the slice ends before the node does.
decode_node(src) ==
  IF Len(src) = 0 \/ Len(src) < 1 + src[1]
  THEN [ok |-> FALSE, consumed |-> 0, node |-> <<>>]
  ELSE [ok |-> TRUE, consumed |-> 1 + src[1], node |-> SubSeq(src, 2, 1 + src[1])]

\* Bytes::advance(cnt): the buffer without its first cnt bytes.
advance(msg, cnt) == SubSeq(msg, cnt + 1, Len(msg))

\* A Relay payload as it arrives: the bytes behind the tag byte, not yet
\* decoded.
RelayBytes(raw) == [ty |-> "RelayBody", raw |-> raw]
\* A Relay payload: the encoded destination node, then the message to pass on.
RelayBody(dest, inner) == RelayBytes(encode_node(dest) \o inner)

\* A buffer handed over by the transport: empty, or a tag byte followed by
\* bytes that decode to `body`.
EmptyBytes == [ty |-> "Bytes", empty |-> TRUE, tag |-> 0, body |-> DecodeError]
Bytes(tag, body) == [ty |-> "Bytes", empty |-> FALSE, tag |-> tag, body |-> body]

\* MessageType::try_from(u8); the key tags exist with the encryption feature.
try_from(value, encryption) ==
  CASE value = 0 -> "Leave"
    [] value = 1 -> "Join"
    [] value = 2 -> "PushPull"
    [] value = 3 -> "UserEvent"
    [] value = 4 -> "Query"
    [] value = 5 -> "QueryResponse"
    [] value = 6 -> "ConflictResponse"
    [] value = 7 -> "Relay"
    [] value = 253 /\ encryption -> "KeyRequest"
    [] value = 254 /\ encryption -> "KeyResponse"
    [] OTHER -> "Unknown"

(***************************************************************************)
(* Push/pull state                                                         *)
(***************************************************************************)

PushPull(l, sl, lm, el, ev, ql) ==
  [ltime |-> l, status_ltimes |-> sl, left_members |-> lm,
   event_ltime |-> el, events |-> ev, query_ltime |-> ql]

NoStatusLtimes == [n \in {} |-> 0]
NoPushPull == PushPull(0, NoStatusLtimes, {}, 0, <<>>, 0)

IdleMerge ==
  [pc |-> "idle", is_join |-> FALSE, pp |-> NoPushPull,
   left |-> {}, joins |-> {}, min_done |-> FALSE, events |-> <<>>,
   pre |-> <<0, 0, 0>>]

\* What a callback leaves in `last`: its name, the message it handled (if any)
\* and the handler's rebroadcast decision.
Call(op, msg, rebroadcast) == [op |-> op, msg |-> msg, rebroadcast |-> rebroadcast]
NoCall == Call("none", NoMsg, FALSE)

\* What the Relay arm leaves in `last`: the node memberlist.send was called
\* for, the bytes it was given and whether the send succeeded.
SendCall(dest, bytes, ok) ==
  [op |-> "relay", msg |-> NoMsg, rebroadcast |-> FALSE, dest |-> dest,
   sent |-> bytes, ok |-> ok]

\* A thread that is in no LamportClock call.
\* Length of a message on the wire, in units of the shortest message: an
\* intent is shorter than a user event, a query is the longest.
ByteLen(msg) ==
  CASE msg.ty \in {"Join", "Leave"} -> 1
    [] msg.ty = "UserEvent" -> 2
    [] OTHER -> 3

\* encoded_len as the transport supplies it: the message and its overhead.
encoded_len(overhead, msg) == overhead + ByteLen(msg)

\* get_broadcasts(overhead, limit) of one queue: in the order of the queue,
\* every broadcast that still fits in what is left of the limit.
RECURSIVE get_broadcasts(_, _, _)
get_broadcasts(queue, overhead, limit) ==
  IF queue = <<>> THEN <<>>
  ELSE LET need == overhead + ByteLen(Head(queue))
       IN IF need <= limit
          THEN <<Head(queue)>> \o get_broadcasts(Tail(queue), overhead, limit - need)
          ELSE get_broadcasts(Tail(queue), overhead, limit)

\* for msg in msgs.iter(): bytes_used += encoded_len(msg).
RECURSIVE bytes_of(_, _)
bytes_of(msgs, overhead) ==
  IF msgs = <<>> THEN 0
  ELSE encoded_len(overhead, Head(msgs)) + bytes_of(Tail(msgs), overhead)

\* A broadcast_messages that offers the whole limit to each of the queues.
broadcast_messages_whole_limit(q, overhead, limit) ==
  LET msgs == get_broadcasts(q.broadcasts, overhead, limit)
      query_msgs == get_broadcasts(q.query_broadcasts, overhead, limit)
      event_msgs == get_broadcasts(q.event_broadcasts, overhead, limit)
  IN [overhead |-> overhead, limit |-> limit,
      query_limit |-> limit, event_limit |-> limit,
      bytes_used |-> bytes_of(msgs, overhead) + 2 * bytes_of(query_msgs, overhead),
      msgs |-> (msgs \o query_msgs) \o event_msgs]

\* A broadcast_messages that hands out the event broadcasts before the query
\* broadcasts.
broadcast_messages_events_first(q, overhead, limit) ==
  LET msgs == get_broadcasts(q.broadcasts, overhead, limit)
      used == bytes_of(msgs, overhead)
      query_limit == limit - used
      query_msgs == get_broadcasts(q.query_broadcasts, overhead, query_limit)
      used_with_queries == used + bytes_of(query_msgs, overhead)
      event_limit == limit - used_with_queries
      event_msgs == get_broadcasts(q.event_broadcasts, overhead, event_limit)
  IN [overhead |-> overhead, limit |-> limit,
      query_limit |-> query_limit, event_limit |-> event_limit,
      bytes_used |-> used_with_queries + bytes_of(query_msgs, overhead),
      msgs |-> (msgs \o event_msgs) \o query_msgs]

\* broadcast_messages(overhead, limit): the membership broadcasts, then the
\* query broadcasts within what the membership broadcasts left of the limit,
\* then the event broadcasts within what both left. The last loop adds the
\* lengths of query_msgs to bytes_used once more.
broadcast_messages(q, overhead, limit) ==
  LET msgs == get_broadcasts(q.broadcasts, overhead, limit)
      used == bytes_of(msgs, overhead)
      query_limit == limit - used
      query_msgs == get_broadcasts(q.query_broadcasts, overhead, query_limit)
      used_with_queries == used + bytes_of(query_msgs, overhead)
      event_limit == limit - used_with_queries
      event_msgs == get_broadcasts(q.event_broadcasts, overhead, event_limit)
  IN [overhead |-> overhead, limit |-> limit,
      query_limit |-> query_limit, event_limit |-> event_limit,
      bytes_used |-> used_with_queries + bytes_of(query_msgs, overhead),
      msgs |-> (msgs \o query_msgs) \o event_msgs]

\* No broadcast_messages call yet.
NoBroadcasts ==
  [overhead |-> 0, limit |-> 0, query_limit |-> 0, event_limit |-> 0,
   bytes_used |-> 0, msgs |-> <<>>]

\* Number of tasks that hold a clone of one query event.
NumResponders == 2
Responders == 1..NumResponders
\* Largest number of respond calls of one task.
MaxResponds == 2

\* The queries on the wire, by (ltime, id).
QueryKeys == {QueryKey(msg) : msg \in QueryMessages}

\* A query no handler has seen: nothing to respond to, nothing sent.
NoQueryEvent == [delivered |-> FALSE, responded |-> FALSE, sent |-> 0]
\* A task in no respond call.
IdleResponder == [pc |-> "idle", key |-> QueryKey(QueryMessage(0, "q1")), result |-> "none", calls |-> 0]
NoResponders ==
  [events |-> [k \in QueryKeys |-> NoQueryEvent],
   tasks |-> [p \in Responders |-> IdleResponder]]

\* A respond that sends whenever it is called.
respond_always(ev) ==
  [event |-> [ev EXCEPT !.responded = TRUE, !.sent = @ + 1], result |-> "Ok"]

\* respond on a query event, under the lock of the event: the first call sends
\* the response and marks the event responded, a later call sends nothing.
respond(ev) ==
  IF ev.responded
  THEN [event |-> ev, result |-> "QueryAlreadyResponsed"]
  ELSE [event |-> [ev EXCEPT !.responded = TRUE, !.sent = @ + 1], result |-> "Ok"]

\* Options::tombstone_timeout and Options::reap_interval, in ticks of the
\* monotonic clock, and the last tick the model follows.
TombstoneTimeout == 1
ReapInterval == 2
MaxNow == 6

\* The reaper after construction: its first sweep is one reap_interval away.
IdleReaper ==
  [now |-> 0, next_sweep |-> ReapInterval,
   leave_time |-> [n \in Nodes |-> 0],
   events |-> [n \in Nodes |-> 0]]

\* The members of the table (failed_members or left_members) that a sweep
\* removes: those whose tombstone has timed out.
expired(table, leave_time, now) ==
  {n \in table : now - leave_time[n] > TombstoneTimeout}

\* A sweep that removes every member of the two tables.
reap_all(m, leave_time, now) ==
  LET gone == m.failed_members \cup m.left_members
  IN [m EXCEPT !.states = [n \in Nodes |-> IF n \in gone THEN NoMember ELSE @[n]],
               !.failed_members = @ \ gone,
               !.left_members = @ \ gone]

\* One sweep of the reaper over failed_members and left_members.
reap(m, leave_time, now) ==
  LET gone == expired(m.failed_members, leave_time, now)
                \cup expired(m.left_members, leave_time, now)
  IN [m EXCEPT !.states = [n \in Nodes |-> IF n \in gone THEN NoMember ELSE @[n]],
               !.failed_members = @ \ gone,
               !.left_members = @ \ gone]

\* A snapshot log with no clock records, read by no restart.
NoSnapshot ==
  [clock |-> 0, event_clock |-> 0, query_clock |-> 0, restarted |-> FALSE]

\* A boot that takes the recorded clocks themselves as the minimum times.
restore_at_recorded(snap) ==
  [event_min_time |-> snap.event_clock, query_min_time |-> snap.query_clock]

\* On boot: the minimum times that follow from the clocks found in the log.
restore(snap) ==
  [event_min_time |-> snap.event_clock + 1, query_min_time |-> snap.query_clock + 1]

\* No join call has returned.
NoJoin == [result |-> "none", joined |-> {}, errors |-> {}, broadcast_error |-> FALSE]

\* join(existing, ignore_old), given the peers the transport managed to join
\* and whether the broadcast of the join went out: Ok with the joined peers
\* if nothing failed; a JoinError with the joined peers, the peers that
\* failed and the broadcast error if the join failed partially or totally.
join(existing, reached, broadcast_ok) ==
  LET joined == existing \cap reached
      errors == existing \ reached
      broadcast_error == joined # {} /\ ~broadcast_ok
  IN [result |-> IF errors = {} /\ ~broadcast_error THEN "Ok" ELSE "JoinError",
      joined |-> joined, errors |-> errors, broadcast_error |-> broadcast_error]

\* The table after the transport has announced each of the nodes.
RECURSIVE handle_node_joins(_, _)
handle_node_joins(m, nodes) ==
  IF nodes = {} THEN m
  ELSE LET n == CHOOSE x \in nodes : TRUE
       IN handle_node_joins(handle_node_join(m, n), nodes \ {n})

(***************************************************************************)
(* The internal-query stage (SerfQueries)                                  *)
(***************************************************************************)

\* Events the node sends towards the user: CrateEvent::Member, User and Query,
\* and CrateEvent::InternalQuery { kind, query } for the reserved query names.
CrateEvent(ty, kind) == [ty |-> ty, kind |-> kind]
CrateEvents ==
  {CrateEvent("User", "none"), CrateEvent("Member", "none"), CrateEvent("Query", "none"),
   CrateEvent("InternalQuery", "Ping"), CrateEvent("InternalQuery", "Conflict")}

\* Number of events sent into the stage.
MaxStageEvents == 3
\* Capacity of the user event channel (async_channel::bounded).
UserChannelSize == 2

\* SerfQueries::new(Some(tx), shutdown_rx): nothing sent, nothing forwarded.
IdleStage == [sent |-> <<>>, inbox |-> <<>>, rx |-> <<>>, received |-> <<>>]

\* A stage that passes every event on.
stream_forwards_all(ev) == TRUE

\* The stage's loop on one event: an internal query is handled in the stage,
\* any other event is passed on to the user event channel.
stream_forwards(ev) == ev.ty # "InternalQuery"

(***************************************************************************)
(* The transport's alive and merge callbacks (delegate.rs)                 *)
(***************************************************************************)

\* Largest encoded length of a node's tags (ruserf_types::META_MAX_SIZE).
META_MAX_SIZE == 512
\* Number of peers handed to one notify_merge call.
MaxPeers == 2

\* A NodeState of the transport: the length of its meta, whether decode_tags
\* accepts the meta, and its state.
NodeState(meta_len, tags_decode, state) ==
  [meta_len |-> meta_len, tags_decode |-> tags_decode, state |-> state]
NodeStates ==
  {NodeState(l, d, st) : l \in {0, META_MAX_SIZE, META_MAX_SIZE + 1},
                         d \in BOOLEAN, st \in {"Alive", "Left"}}

\* The user delegate: none configured, or one whose notify_merge accepts or
\* rejects what it is given.
Delegates == {"None", "Accepts", "Rejects"}

\* A conversion that takes any meta.
node_to_member_unchecked(node) ==
  [err |-> "none", status |-> IF node.state = "Left" THEN "Left" ELSE "None"]

\* node_to_member: the Member of a NodeState, or the error of the conversion.
node_to_member(node) ==
  IF node.meta_len > META_MAX_SIZE
  THEN [err |-> "TagsTooLarge", status |-> "None"]
  ELSE IF ~node.tags_decode
  THEN [err |-> "Transform", status |-> "None"]
  ELSE [err |-> "none", status |-> IF node.state = "Left" THEN "Left" ELSE "None"]

\* peers.into_iter().map(node_to_member).collect::<Result<_, _>>(): the members
\* converted before the first error, and that error.
RECURSIVE collect_members(_)
collect_members(peers) ==
  IF peers = <<>> THEN [err |-> "none", members |-> <<>>]
  ELSE LET m == node_to_member(Head(peers)) IN
       IF m.err # "none" THEN [err |-> m.err, members |-> <<>>]
       ELSE LET rest == collect_members(Tail(peers)) IN
            [err |-> rest.err,
             members |-> IF rest.err = "none" THEN <<m>> \o rest.members ELSE <<>>]

\* What the user delegate's notify_merge makes of the members it is given.
delegate_notify_merge(delegate, converted) ==
  [result |-> IF delegate = "Accepts" THEN "Ok" ELSE "Delegate",
   invoked |-> TRUE, given |-> converted]

\* MemberlistMergeDelegate::notify_merge of SerfDelegate.
notify_merge(delegate, peers) ==
  IF delegate # "None"
  THEN LET c == collect_members(peers) IN
       IF c.err # "none"
       THEN [result |-> c.err, invoked |-> FALSE, given |-> <<>>]
       ELSE delegate_notify_merge(delegate, c.members)
  ELSE [result |-> "Ok", invoked |-> FALSE, given |-> <<>>]

\* AliveDelegate::notify_alive of SerfDelegate.
notify_alive(delegate, node) ==
  IF delegate # "None"
  THEN LET member == node_to_member(node) IN
       IF member.err # "none"
       THEN [result |-> member.err, invoked |-> FALSE, given |-> <<>>]
       ELSE delegate_notify_merge(delegate, <<member>>)
  ELSE [result |-> "Ok", invoked |-> FALSE, given |-> <<>>]

\* What notify_alive or notify_merge leaves in `last`: the delegate it met, the
\* peers it was given and what it returned.
PeersCall(op, delegate, peers, returned) ==
  [op |-> op, msg |-> NoMsg, rebroadcast |-> FALSE, delegate |-> delegate,
   peers |-> peers, returned |-> returned]

(***************************************************************************)
(* Ping payloads and network coordinates                                   *)
(***************************************************************************)

PING_VERSION == 1

\* Largest component of a coordinate.
MaxCoordinate == 1

\* A network coordinate, cut down to two components.
Coordinate(vec, height) == [vec |-> vec, height |-> height]
Coordinates == {Coordinate(v, h) : v, h \in 0..MaxCoordinate}
\* Coordinate::new(): the origin.
Origin == Coordinate(0, 0)
\* No coordinate cached for a node, or none decoded.
NoCoordinate == [vec |-> -1, height |-> -1]

\* The id memberlist.local_id() returns.
LocalId == "local"

\* Option<CoordCore>: None, or the client's coordinate and the cache.
CoordCore(coordinate, cache) == [enabled |-> TRUE, coordinate |-> coordinate, cache |-> cache]
NoCache == [n \in Nodes \cup {LocalId} |-> NoCoordinate]
NoCoordCore == [enabled |-> FALSE, coordinate |-> Origin, cache |-> NoCache]

\* A coordinate on the wire: one byte for each component.
coordinate_bytes(c) == <<c.vec, c.height>>

\* encode_coordinate(c, dst): write the coordinate at the start of the slice,
\* or fail on a slice too short for it and leave the slice as it is.
encode_coordinate(c, dst) ==
  IF Len(dst) < Len(coordinate_bytes(c))
  THEN [ok |-> FALSE, dst |-> dst]
  ELSE [ok |-> TRUE,
        dst |-> coordinate_bytes(c) \o SubSeq(dst, Len(coordinate_bytes(c)) + 1, Len(dst))]

\* decode_coordinate(src): the coordinate at the start of the slice, or an error
\* on a slice that ends before it.
decode_coordinate(src) ==
  IF Len(src) < 2
  THEN [ok |-> FALSE, coordinate |-> NoCoordinate]
  ELSE [ok |-> TRUE, coordinate |-> Coordinate(src[1], src[2])]

\* An ack_payload that makes room for the coordinate behind the version byte
\* before it encodes.
ack_payload_allocated(cc) ==
  IF cc.enabled
  THEN LET buf == <<PING_VERSION>> \o [i \in 1..2 |-> 0]
           r == encode_coordinate(cc.coordinate, SubSeq(buf, 2, Len(buf)))
       IN SubSeq(buf, 1, 1) \o r.dst
  ELSE <<>>

\* ack_payload: with coordinates, a new Vec, the version byte pushed, and the
\* coordinate encoded into buf[1..], the slice behind that byte; an encode error
\* is logged. The slice cannot grow the Vec. Without coordinates, no bytes.
ack_payload(cc) ==
  IF cc.enabled
  THEN LET buf == <<PING_VERSION>>
           r == encode_coordinate(cc.coordinate, SubSeq(buf, 2, Len(buf)))
       IN SubSeq(buf, 1, 1) \o r.dst
  ELSE <<>>

\* Longest round-trip time of a ping, in units of the shortest.
MaxRtt == 2

\* The arguments of a client.update call; NoUpdate when it was not called.
Update(node, other, rtt) == [node |-> node, other |-> other, rtt |-> rtt]
NoUpdate == Update("none", NoCoordinate, 0)

\* notify_ping_complete: what it decodes from the payload, the client.update
\* call it makes and the coord_core it leaves. `after` is what the client's
\* update returns: a coordinate, or NoCoordinate when it rejects the round
\* trip. The coordinate handed to update is `before`, the client's own.
notify_ping_complete(cc, node, rtt, payload, after) ==
  IF Len(payload) = 0 \/ ~cc.enabled
  THEN [decoded |-> NoCoordinate, update |-> NoUpdate, coord_core |-> cc]
  ELSE IF payload[1] # PING_VERSION
  THEN [decoded |-> NoCoordinate, update |-> NoUpdate, coord_core |-> cc]
  ELSE LET d == decode_coordinate(Tail(payload))
           before == cc.coordinate
       IN
       IF ~d.ok
       THEN [decoded |-> NoCoordinate, update |-> NoUpdate, coord_core |-> cc]
       ELSE IF after = NoCoordinate
       THEN [decoded |-> d.coordinate, update |-> Update(node, before, rtt),
             coord_core |-> cc]
       ELSE [decoded |-> d.coordinate, update |-> Update(node, before, rtt),
             coord_core |-> [cc EXCEPT !.coordinate = after,
                                       !.cache = [@ EXCEPT ![node] = d.coordinate,
                                                           ![LocalId] = after]]]

\* What a ping callback leaves in `last`: the node pinged, the round-trip
\* time, the payload, the coordinate decoded from it, the client.update call
\* made and what that returned.
PingCall(op, node, rtt, payload, decoded, update, after) ==
  [op |-> op, msg |-> NoMsg, rebroadcast |-> FALSE, node |-> node, rtt |-> rtt,
   payload |-> payload, decoded |-> decoded, update |-> update, after |-> after]

(***************************************************************************)
(* The list-keys response and the response size limit                      *)
(***************************************************************************)

\* Most keys in a list-keys response.
MaxKeys == 4
\* Largest query_response_size_limit.
MaxSizeLimit == 11
\* Encoded length of a query response that carries no key and no message, of
\* one key, and of the "truncated" notice.
ResponseHeaderBytes == 1
KeyBytes == 2
NoticeBytes == 1

\* A KeyResponseMessage: its keys and its message. KeyResponseMessage::default()
\* with add_key called n times has n keys and an empty message.
KeyResponseMessage(n) == [keys |-> [i \in 1..n |-> i], message |-> ""]

\* Length of the encoded query response that carries the encoded key response.
response_encoded_len(resp) ==
  ResponseHeaderBytes + KeyBytes * Len(resp.keys)
    + (IF resp.message = "truncated" THEN NoticeBytes ELSE 0)

\* A size check that lets every response pass.
check_response_size_any(resp, limit) == TRUE

\* query.check_response_size(raw)
check_response_size(resp, limit) == response_encoded_len(resp) <= limit

\* resp.keys.truncate(i)
truncate(keys, i) == IF i < Len(keys) THEN SubSeq(keys, 1, i) ELSE keys

\* SerfQueries::key_list_response_with_correct_size(&query, &mut resp) on entry:
\* the loop counts i down from the number of keys.
key_list_response_with_correct_size(resp, limit) ==
  [result |-> "running", resp |-> resp, i |-> Len(resp.keys)]

\* One turn of its loop: encode and check the size; on failure cut the keys to
\* i, set the notice and go on with i - 1 (giving up once i has passed 0).
truncate_turn(c, limit) ==
  IF c.i < 0 THEN [c EXCEPT !.result = "FailTruncateResponse"]
  ELSE IF ~check_response_size(c.resp, limit)
  THEN [c EXCEPT !.resp = [keys |-> truncate(c.resp.keys, c.i), message |-> "truncated"],
                 !.i = c.i - 1]
  ELSE [c EXCEPT !.result = "Ok"]

(***************************************************************************)
(* The delegate's handle of the Serf root (delegate.rs)                    *)
(***************************************************************************)

\* The handles a store call may be given; the first is the root that
\* Serf::new builds.
RootSerf == "root"
Handles == {RootSerf, "other"}
\* OnceLock::new(): the cell before any store.
NoSerf == "none"
\* What a task is left with when this() unwraps an empty cell.
Panicked == "panicked"

\* A store that replaces the handle in the cell.
store_overwrites(cell, s) == s

\* SerfDelegate::store: OnceLock::set fills an empty cell and leaves a full one
\* as it is; its result is dropped.
store(cell, s) == IF cell = NoSerf THEN s ELSE cell

\* SerfDelegate::this: the handle in the cell; unwrap panics on an empty cell.
this(cell) == IF cell = NoSerf THEN Panicked ELSE cell

\* The callbacks of the delegate that begin with this().
CallbackOps == {"node_meta", "notify_message", "local_state", "notify_join"}
IdleCallback == [pc |-> "idle", op |-> "none", this |-> NoSerf]

\* The parts of the node that are at rest after construction.
IdleServices ==
  /\ out = NoBroadcasts
  /\ responders = NoResponders
  /\ reaper = IdleReaper
  /\ snapshot = NoSnapshot
  /\ join_result = NoJoin
  /\ stage = IdleStage
  /\ coord_core = NoCoordCore
  /\ serf = RootSerf
  /\ callbacks = [p \in Threads |-> IdleCallback]

\* A thread that is in no LamportClock call. `prior` is -1 unless the call in
\* progress repeats the witness call the thread has just returned from; then it
\* is the value the clock had when that first call began.
IdleThread ==
  [pc |-> "idle", time |-> 0, current |-> 0, start |-> 0, dirty |-> FALSE,
   prior |-> -1]

\* The node after construction: clocks at zero, empty tables, no call in progress.
Init ==
  /\ clock = 0
  /\ event_clock = 0
  /\ query_clock = 0
  /\ members = EmptyMembers
  /\ event_core = EmptyEventCore
  /\ event_join_ignore = FALSE
  /\ event_tx = [k \in EventKeys |-> 0]
  /\ merge = IdleMerge
  /\ last = NoCall
  /\ threads = [p \in Threads |-> IdleThread]
  /\ last_time = 0
  /\ pending = {}
  /\ sent = [members |-> EmptyMembers, intents |-> {}]
  /\ query_core = EmptyQueryCore
  /\ queues = UntrackedQueues
  /\ IdleServices

(***************************************************************************)
(* LamportClock shared by threads (clock.rs)                               *)
(***************************************************************************)

\* Every other thread that is inside a call sees the clock change under it.
Disturb(p, th) ==
  [q \in Threads |->
     IF q # p /\ th[q].pc # "idle" THEN [th[q] EXCEPT !.dirty = TRUE] ELSE th[q]]

\* LamportClock::time: one SeqCst load.
Time(p) ==
  /\ threads[p].pc = "idle"
  /\ last_time' = clock
  /\ UNCHANGED <<clock, threads, node_vars>>

\* LamportClock::increment: one fetch_add, returning the new value.
Increment(p) ==
  /\ threads[p].pc = "idle"
  /\ clock < ClockCap
  /\ clock' = clock + 1
  /\ threads' = Disturb(p, [threads EXCEPT ![p] =
                  [IdleThread EXCEPT !.pc = "incremented", !.current = clock + 1]])
  /\ UNCHANGED <<last_time, node_vars>>

\* The caller of witness(t) enters the loop.
WitnessCall(p, t) ==
  /\ threads[p].pc = "idle"
  /\ threads' = [threads EXCEPT ![p] =
                  [IdleThread EXCEPT !.pc = "load", !.time = t, !.start = clock]]
  /\ UNCHANGED <<clock, last_time, node_vars>>

\* A load that goes on to the exchange whatever it read.
WitnessLoadNoCompare(p) ==
  /\ threads[p].pc = "load"
  /\ threads' = [threads EXCEPT ![p].current = clock, ![p].pc = "cas"]
  /\ UNCHANGED <<clock, last_time, node_vars>>

\* let current = load(); if current >= time { return }
WitnessLoad(p) ==
  /\ threads[p].pc = "load"
  /\ threads' = [threads EXCEPT ![p].current = clock,
                                ![p].pc = IF clock >= threads[p].time THEN "returned" ELSE "cas"]
  /\ UNCHANGED <<clock, last_time, node_vars>>

\* A plain store in place of the compare-exchange.
CasMatchesBlind(p) == TRUE

\* The compare half of compare_exchange_weak(current, time + 1).
CasMatches(p) == clock = threads[p].current

\* compare_exchange_weak succeeds: the clock becomes time + 1 and witness returns.
WitnessCasOk(p) ==
  /\ threads[p].pc = "cas"
  /\ CasMatches(p)
  /\ clock' = threads[p].time + 1
  /\ threads' = Disturb(p, [threads EXCEPT ![p].pc = "returned"])
  /\ UNCHANGED <<last_time, node_vars>>

\* compare_exchange_weak fails (the clock moved, or spuriously): retry the loop.
WitnessCasFail(p) ==
  /\ threads[p].pc = "cas"
  /\ threads' = [threads EXCEPT ![p].pc = "load"]
  /\ UNCHANGED <<clock, last_time, node_vars>>

\* The caller takes the result of increment or witness and goes on.
Return(p) ==
  /\ threads[p].pc \in {"returned", "incremented"}
  /\ threads' = [threads EXCEPT ![p] = IdleThread]
  /\ UNCHANGED <<clock, last_time, node_vars>>

ClockNext ==
  \E p \in Threads :
    \/ Time(p)
    \/ Increment(p)
    \/ \E t \in 0..MaxTime : WitnessCall(p, t)
    \/ WitnessLoad(p)
    \/ WitnessCasOk(p)
    \/ WitnessCasFail(p)
    \/ Return(p)

ClockSpec == Init /\ [][ClockNext]_vars

\* Width of the clock in bits: the AtomicU64, scaled down.
ClockBits == 2
\* The largest value of the clock (u64::MAX, scaled down).
MaxClock == 2 ^ ClockBits - 1

\* LamportClock::increment at full width: fetch_add wraps around at the largest
\* value; the + 1 on the value it returns overflows there, which panics in a
\* build with overflow checks and wraps in one without.
IncrementWrapping(p) ==
  /\ threads[p].pc = "idle"
  /\ clock' = (clock + 1) % (MaxClock + 1)
  /\ \E overflow_checks \in BOOLEAN :
       threads' = Disturb(p, [threads EXCEPT ![p] =
                    [IdleThread EXCEPT
                       !.pc = IF clock = MaxClock /\ overflow_checks
                              THEN "panicked" ELSE "incremented",
                       !.start = clock,
                       !.current = (clock + 1) % (MaxClock + 1)]])
  /\ UNCHANGED <<last_time, node_vars>>

\* compare_exchange_weak(current, time + 1) at full width: time + 1 overflows
\* for the largest time, which panics in a build with overflow checks and
\* wraps to 0 in one without.
WitnessCasOkWrapping(p) ==
  /\ threads[p].pc = "cas"
  /\ \E overflow_checks \in BOOLEAN :
       IF threads[p].time = MaxClock /\ overflow_checks
       THEN /\ threads' = [threads EXCEPT ![p].pc = "panicked"]
            /\ clock' = clock
       ELSE /\ CasMatches(p)
            /\ clock' = (threads[p].time + 1) % (MaxClock + 1)
            /\ threads' = Disturb(p, [threads EXCEPT ![p].pc = "returned"])
  /\ UNCHANGED <<last_time, node_vars>>

\* The caller of a call that panicked is gone; another task takes its place.
Recover(p) ==
  /\ threads[p].pc = "panicked"
  /\ threads' = [threads EXCEPT ![p] = IdleThread]
  /\ UNCHANGED <<clock, last_time, node_vars>>

\* The clock at full width, under times from the whole range.
WrapNext ==
  \E p \in Threads :
    \/ Time(p)
    \/ IncrementWrapping(p)
    \/ \E t \in 0..MaxClock : WitnessCall(p, t)
    \/ WitnessLoad(p)
    \/ WitnessCasOkWrapping(p)
    \/ WitnessCasFail(p)
    \/ Return(p)
    \/ Recover(p)

WrapSpec == Init /\ [][WrapNext]_vars

\* The caller of a witness(t) that returned with no other thread writing the
\* clock calls witness(t) again at once (as test_lamport_clock does with 41).
WitnessRepeat(p) ==
  /\ threads[p].pc = "returned"
  /\ ~threads[p].dirty
  /\ threads[p].prior = -1
  /\ threads' = [threads EXCEPT ![p] =
                  [IdleThread EXCEPT !.pc = "load", !.time = threads[p].time,
                                     !.start = clock, !.prior = threads[p].start]]
  /\ UNCHANGED <<clock, last_time, node_vars>>

\* The clock at full width, with one caller that makes and repeats witness
\* calls while another thread increments the clock.
Caller == CHOOSE p \in Threads : \A q \in Threads : p <= q
Writer == CHOOSE p \in Threads : p # Caller

RepeatNext ==
  \/ \E p \in {Caller, Writer} :
       \/ Time(p)
       \/ Return(p)
       \/ Recover(p)
  \/ IncrementWrapping(Writer)
  \/ \E t \in 0..MaxClock : WitnessCall(Caller, t)
  \/ WitnessLoad(Caller)
  \/ WitnessCasOkWrapping(Caller)
  \/ WitnessCasFail(Caller)
  \/ WitnessRepeat(Caller)

RepeatSpec == Init /\ [][RepeatNext]_vars

\* The clock at full width under one caller of witness and other threads that
\* write the clock finitely often: each makes one increment or one witness call
\* and no more. A caller that panicked is gone for good.
LoopNext ==
  \/ \E t \in 0..MaxClock : WitnessCall(Caller, t)
  \/ WitnessLoad(Caller)
  \/ WitnessCasOkWrapping(Caller)
  \/ WitnessCasFail(Caller)
  \/ Return(Caller)
  \/ \E p \in Threads \ {Caller} :
       \/ IncrementWrapping(p)
       \/ \E t \in 0..MaxClock : WitnessCall(p, t)
       \/ WitnessLoad(p)
       \/ WitnessCasOkWrapping(p)
       \/ WitnessCasFail(p)

\* The caller's thread is scheduled, and an exchange that could succeed time
\* and again does succeed in the end (compare_exchange_weak does not fail
\* spuriously for ever).
LoopFairness ==
  /\ WF_vars(WitnessLoad(Caller))
  /\ WF_vars(WitnessCasOkWrapping(Caller) \/ WitnessCasFail(Caller))
  /\ SF_vars(WitnessCasOkWrapping(Caller))

LoopSpec == Init /\ [][LoopNext]_vars /\ LoopFairness

\* The same at times below the largest and with witness calls only, where
\* nothing wraps.
LoopBelowMaxNext ==
  \/ \E t \in 0..(MaxClock - 1) : WitnessCall(Caller, t)
  \/ WitnessLoad(Caller)
  \/ WitnessCasOkWrapping(Caller)
  \/ WitnessCasFail(Caller)
  \/ Return(Caller)
  \/ \E p \in Threads \ {Caller} :
       \/ \E t \in 0..(MaxClock - 1) : WitnessCall(p, t)
       \/ WitnessLoad(p)
       \/ WitnessCasOkWrapping(p)
       \/ WitnessCasFail(p)

LoopBelowMaxSpec == Init /\ [][LoopBelowMaxNext]_vars /\ LoopFairness

\* What a callback that only returns a verdict leaves alone.
verdict_frame ==
  <<clock, event_clock, query_clock, query_core, members, event_core,
    event_join_ignore, event_tx, merge, pending, queues, threads,
    last_time, sent, out, responders, reaper, snapshot, join_result, service_vars>>

\* The transport asks whether a node may be taken as alive.
NotifyAlive(delegate, node) ==
  /\ last = NoCall
  /\ last' = PeersCall("notify_alive", delegate, <<node>>, notify_alive(delegate, node))
  /\ UNCHANGED verdict_frame

\* The transport asks whether the peers of a push/pull may be merged.
NotifyMerge(delegate, peers) ==
  /\ last = NoCall
  /\ last' = PeersCall("notify_merge", delegate, peers, notify_merge(delegate, peers))
  /\ UNCHANGED verdict_frame

\* The transport takes the verdict and acts on it.
TakeVerdict ==
  /\ last.op \in {"notify_alive", "notify_merge", "key_list_response_with_correct_size"}
  /\ last.returned.result # "running"
  /\ last' = NoCall
  /\ UNCHANGED verdict_frame

RECURSIVE PeerSeqs(_)
PeerSeqs(len) ==
  IF len = 0 THEN {<<>>}
  ELSE PeerSeqs(len - 1) \cup
       {Append(ps, n) : ps \in {q \in PeerSeqs(len - 1) : Len(q) = len - 1},
                        n \in NodeStates}

PeersNext ==
  \/ \E delegate \in Delegates :
       \/ \E node \in NodeStates : NotifyAlive(delegate, node)
       \/ \E peers \in PeerSeqs(MaxPeers) : NotifyMerge(delegate, peers)
  \/ TakeVerdict

PeersSpec == Init /\ [][PeersNext]_vars

\* The list-keys handler fits its response of n keys to the size limit.
KeyListResponse(n, limit) ==
  /\ last = NoCall
  /\ last' = [op |-> "key_list_response_with_correct_size", msg |-> NoMsg,
              rebroadcast |-> FALSE, resp |-> KeyResponseMessage(n), limit |-> limit,
              returned |-> key_list_response_with_correct_size(KeyResponseMessage(n), limit)]
  /\ UNCHANGED verdict_frame

\* The loop of the call in progress takes one turn.
TruncateTurn ==
  /\ last.op = "key_list_response_with_correct_size"
  /\ last.returned.result = "running"
  /\ last' = [last EXCEPT !.returned = truncate_turn(@, last.limit)]
  /\ UNCHANGED verdict_frame

KeysNext ==
  \/ \E n \in 0..MaxKeys, limit \in 0..MaxSizeLimit : KeyListResponse(n, limit)
  \/ TruncateTurn
  \/ TakeVerdict

KeysSpec == Init /\ [][KeysNext]_vars

\* What a ping callback leaves alone.
ping_frame ==
  <<clock, event_clock, query_clock, query_core, members, event_core,
    event_join_ignore, event_tx, merge, pending, queues, threads,
    last_time, sent, out, responders, reaper, snapshot, join_result, stage,
    serf, callbacks>>

\* The transport asks for the payload of the ack to a ping.
AckPayload ==
  /\ last = NoCall
  /\ last' = PingCall("ack_payload", LocalId, 0, ack_payload(coord_core), NoCoordinate,
                      NoUpdate, NoCoordinate)
  /\ UNCHANGED <<coord_core, ping_frame>>

\* The transport reports the ack of a ping to `node`, with its payload.
NotifyPingComplete(node, rtt, payload, after) ==
  /\ last = NoCall
  /\ LET r == notify_ping_complete(coord_core, node, rtt, payload, after)
     IN /\ last' = PingCall("notify_ping_complete", node, rtt, payload, r.decoded, r.update,
                            IF r.update = NoUpdate THEN NoCoordinate ELSE after)
        /\ coord_core' = r.coord_core
  /\ UNCHANGED ping_frame

\* The callback has returned.
PingReturns ==
  /\ last.op \in {"ack_payload", "notify_ping_complete"}
  /\ last' = NoCall
  /\ UNCHANGED <<coord_core, ping_frame>>

\* The coord_core of a peer: none, or a client at any coordinate.
PeerCoordCores == {NoCoordCore} \cup {CoordCore(c, NoCache) : c \in Coordinates}

\* Payloads that no ack_payload of this version made: another ping version,
\* and a version byte followed by a whole coordinate.
StrayPayloads ==
  {<<PING_VERSION + 1>> \o coordinate_bytes(c) : c \in Coordinates}
    \cup {<<PING_VERSION>> \o coordinate_bytes(c) : c \in Coordinates}

\* A node with or without coordinates.
PingInit ==
  /\ clock = 0
  /\ event_clock = 0
  /\ query_clock = 0
  /\ members = EmptyMembers
  /\ event_core = EmptyEventCore
  /\ event_join_ignore = FALSE
  /\ event_tx = [k \in EventKeys |-> 0]
  /\ merge = IdleMerge
  /\ last = NoCall
  /\ threads = [p \in Threads |-> IdleThread]
  /\ last_time = 0
  /\ pending = {}
  /\ sent = [members |-> EmptyMembers, intents |-> {}]
  /\ query_core = EmptyQueryCore
  /\ queues = UntrackedQueues
  /\ out = NoBroadcasts
  /\ responders = NoResponders
  /\ reaper = IdleReaper
  /\ snapshot = NoSnapshot
  /\ join_result = NoJoin
  /\ stage = IdleStage
  /\ coord_core \in {NoCoordCore, CoordCore(Origin, NoCache)}
  /\ serf = RootSerf
  /\ callbacks = [p \in Threads |-> IdleCallback]

\* A node that answers pings and pings peers; the ack of a peer carries what
\* the peer's ack_payload returned.
PingNext ==
  \/ AckPayload
  \/ \E node \in Nodes, rtt \in 1..MaxRtt, peer \in PeerCoordCores,
        after \in Coordinates \cup {NoCoordinate} :
       NotifyPingComplete(node, rtt, ack_payload(peer), after)
  \/ \E node \in Nodes, rtt \in 1..MaxRtt, payload \in StrayPayloads,
        after \in Coordinates \cup {NoCoordinate} :
       NotifyPingComplete(node, rtt, payload, after)
  \/ PingReturns

PingSpec == PingInit /\ [][PingNext]_vars

\* What a step of the delegate's handle leaves alone.
handle_frame ==
  <<clock, event_clock, query_clock, query_core, members, event_core,
    event_join_ignore, event_tx, merge, pending, queues, threads,
    last_time, sent, out, responders, reaper, snapshot, join_result, stage,
    coord_core>>

\* What a store call leaves in `last`: the handle it was given.
StoreCall(s) == [op |-> "store", s |-> s]

\* store(s) on the delegate.
Store(s) ==
  /\ serf' = store(serf, s)
  /\ last' = StoreCall(s)
  /\ UNCHANGED <<callbacks, handle_frame>>

\* A task of the transport enters a callback, which takes the handle first.
CallbackBegins(p, op) ==
  /\ callbacks[p].pc = "idle"
  /\ callbacks' = [callbacks EXCEPT ![p] = [pc |-> "running", op |-> op, this |-> this(serf)]]
  /\ UNCHANGED <<serf, last, handle_frame>>

\* The callback returns, or the panic has ended it.
CallbackEnds(p) ==
  /\ callbacks[p].pc = "running"
  /\ callbacks' = [callbacks EXCEPT ![p] = IdleCallback]
  /\ UNCHANGED <<serf, last, handle_frame>>

\* A delegate fresh from SerfDelegate::new, before any store.
HandleInit ==
  /\ clock = 0
  /\ event_clock = 0
  /\ query_clock = 0
  /\ members = EmptyMembers
  /\ event_core = EmptyEventCore
  /\ event_join_ignore = FALSE
  /\ event_tx = [k \in EventKeys |-> 0]
  /\ merge = IdleMerge
  /\ last = NoCall
  /\ threads = [p \in Threads |-> IdleThread]
  /\ last_time = 0
  /\ pending = {}
  /\ sent = [members |-> EmptyMembers, intents |-> {}]
  /\ query_core = EmptyQueryCore
  /\ queues = UntrackedQueues
  /\ out = NoBroadcasts
  /\ responders = NoResponders
  /\ reaper = IdleReaper
  /\ snapshot = NoSnapshot
  /\ join_result = NoJoin
  /\ stage = IdleStage
  /\ coord_core = NoCoordCore
  /\ serf = NoSerf
  /\ callbacks = [p \in Threads |-> IdleCallback]

\* Store calls in any number and with any handle, among the callbacks of the
\* transport's tasks.
HandleNext ==
  \/ \E s \in Handles : Store(s)
  \/ \E p \in Threads, op \in CallbackOps : CallbackBegins(p, op)
  \/ \E p \in Threads : CallbackEnds(p)

HandleSpec == HandleInit /\ [][HandleNext]_vars

\* What an action of the stage leaves alone.
stage_frame ==
  <<clock, event_clock, query_clock, query_core, members, event_core,
    event_join_ignore, event_tx, merge, last, pending, queues, threads,
    last_time, sent, out, responders, reaper, snapshot, join_result, coord_core,
    serf, callbacks>>

\* event_tx.send(event): the node hands an event to the stage.
StageSend(ev) ==
  /\ Len(stage.sent) < MaxStageEvents
  /\ stage' = [stage EXCEPT !.sent = Append(@, ev), !.inbox = Append(@, ev)]
  /\ UNCHANGED stage_frame

\* One turn of the stage's loop: take the next event; handle an internal query
\* here, send any other event on the user event channel (waiting while the
\* channel is full).
StageStream ==
  /\ stage.inbox # <<>>
  /\ LET ev == Head(stage.inbox) IN
       IF stream_forwards(ev)
       THEN /\ Len(stage.rx) < UserChannelSize
            /\ stage' = [stage EXCEPT !.inbox = Tail(@), !.rx = Append(@, ev)]
       ELSE stage' = [stage EXCEPT !.inbox = Tail(@)]
  /\ UNCHANGED stage_frame

\* rx.recv(): the user takes the next event off the user event channel.
StageRecv ==
  /\ stage.rx # <<>>
  /\ stage' = [stage EXCEPT !.rx = Tail(@), !.received = Append(@, Head(stage.rx))]
  /\ UNCHANGED stage_frame

StageNext ==
  \/ \E ev \in CrateEvents : StageSend(ev)
  \/ StageStream
  \/ StageRecv

StageSpec == Init /\ [][StageNext]_vars

(***************************************************************************)
(* The delegate's callbacks (delegate.rs)                                  *)
(***************************************************************************)

\* A dispatcher that queues every intent for rebroadcast, whatever the handler
\* returned.
HandleIntentQueueAll(op, msg) ==
  LET r == IF msg.ty = "Leave"
           THEN handle_node_leave_intent(members, msg)
           ELSE handle_node_join_intent(members, msg)
  IN /\ clock' = witness(clock, msg.ltime)
     /\ members' = r.members
     /\ last' = Call(op, msg, TRUE)
     /\ UNCHANGED <<event_clock, query_clock, query_core, event_core, event_tx>>

\* One Join or Leave intent through its handler: witness the membership clock,
\* then decide on the table.
HandleIntent(op, msg) ==
  LET r == IF msg.ty = "Leave"
           THEN handle_node_leave_intent(members, msg)
           ELSE handle_node_join_intent(members, msg)
  IN /\ clock' = witness(clock, msg.ltime)
     /\ members' = r.members
     /\ last' = Call(op, msg, r.rebroadcast)
     /\ UNCHANGED <<event_clock, query_clock, query_core, event_core, event_tx>>

\* A dispatcher that queues every user event for rebroadcast, whatever the
\* handler returned.
HandleUserEventQueueAll(op, msg) ==
  LET now == witness(event_clock, msg.ltime)
      r == handle_user_event(event_core, now, msg)
  IN /\ event_clock' = now
     /\ event_core' = r.event_core
     /\ event_tx' = IF r.rebroadcast
                    THEN [event_tx EXCEPT ![EventKey(msg)] = @ + 1]
                    ELSE event_tx
     /\ last' = Call(op, msg, TRUE)
     /\ UNCHANGED <<clock, query_clock, query_core, members>>

\* One user event through handle_user_event: witness the event clock, then the
\* ring; an accepted event goes to the user event channel.
HandleUserEvent(op, msg) ==
  LET now == witness(event_clock, msg.ltime)
      r == handle_user_event(event_core, now, msg)
  IN /\ event_clock' = now
     /\ event_core' = r.event_core
     /\ event_tx' = IF r.rebroadcast
                    THEN [event_tx EXCEPT ![EventKey(msg)] = @ + 1]
                    ELSE event_tx
     /\ last' = Call(op, msg, r.rebroadcast)
     /\ UNCHANGED <<clock, query_clock, query_core, members>>

\* One query through handle_query: witness the query clock, then the ring of
\* seen queries.
HandleQuery(op, msg) ==
  LET r == handle_query(query_core, msg)
  IN /\ query_clock' = witness(query_clock, msg.ltime)
     /\ query_core' = r.query_core
     /\ last' = Call(op, msg, r.rebroadcast)
     /\ UNCHANGED <<clock, event_clock, members, event_core, event_tx>>

\* One query response through handle_query_response: it goes to the query of
\* this node it answers, if that is still active, and nowhere else.
HandleQueryResponse(op, msg) ==
  /\ last' = Call(op, msg, FALSE)
  /\ UNCHANGED <<clock, event_clock, query_clock, query_core, members, event_core,
                 event_tx>>

\* A notify_message that has one queue for every rebroadcast.
rebroadcast_queue_membership(ty) == "broadcasts"

\* The queue notify_message picks for a message of the type.
rebroadcast_queue(ty) ==
  CASE ty = "UserEvent" -> "event_broadcasts"
    [] ty = "Query" -> "query_broadcasts"
    [] OTHER -> "broadcasts"

\* The arms of notify_message for a decoded message, and the queue_broadcast
\* that follows them if a handler asked for a rebroadcast.
DispatchMessage(msg) ==
  /\ \/ msg.ty = "Leave" /\ HandleIntent("notify_message", msg)
     \/ msg.ty = "Join" /\ HandleIntent("notify_message", msg)
     \/ msg.ty = "UserEvent" /\ HandleUserEvent("notify_message", msg)
     \/ msg.ty = "Query" /\ HandleQuery("notify_message", msg)
     \/ msg.ty = "QueryResponse" /\ HandleQueryResponse("notify_message", msg)
  /\ queues' = IF last'.rebroadcast
                THEN queue_broadcast(queues, rebroadcast_queue(msg.ty), msg)
                ELSE queues

\* notify_message: dispatch one gossip message on its type.
NotifyMessage(msg) ==
  /\ DispatchMessage(msg)
  /\ pending' = pending \ {msg}
  /\ UNCHANGED <<merge, event_join_ignore, other_vars>>

\* notify_message returns without a handler call: the bytes are logged and
\* dropped.
DropMessage(buf) ==
  /\ last' = Call("notify_message", NoMsg, FALSE)
  /\ UNCHANGED <<clock, event_clock, query_clock, query_core, members, event_core,
                 event_tx, queues>>

\* A Relay arm that advances past the destination only, not past the tag byte.
RelayMessageKeepsByte(buf) ==
  LET msg == <<buf.tag>> \o buf.body.raw
      n == decode_node(Tail(msg))
  IN /\ IF n.ok
        THEN \E ok \in BOOLEAN : last' = SendCall(n.node, advance(msg, n.consumed), ok)
        ELSE last' = Call("notify_message", NoMsg, FALSE)
     /\ UNCHANGED <<clock, event_clock, query_clock, query_core, members, event_core,
                    event_tx, queues>>

\* The Relay arm: decode the destination from the bytes behind the tag, advance
\* the buffer past the tag and the destination, and hand what is left to
\* memberlist.send for that node; a failed send and a destination that does not
\* decode are logged.
RelayMessage(buf) ==
  LET msg == <<buf.tag>> \o buf.body.raw
      n == decode_node(Tail(msg))
  IN /\ IF n.ok
        THEN \E ok \in BOOLEAN : last' = SendCall(n.node, advance(msg, n.consumed + 1), ok)
        ELSE last' = Call("notify_message", NoMsg, FALSE)
     /\ UNCHANGED <<clock, event_clock, query_clock, query_core, members, event_core,
                    event_tx, queues>>

\* A notify_message that trusts the decoder: it calls the handler of whatever
\* message the bytes decode to.
NotifyMessageBytesUnchecked(buf, encryption) ==
  /\ pending' = pending \ {buf}
  /\ IF ~buf.empty /\ buf.body.ty \in {"Leave", "Join", "UserEvent", "Query", "QueryResponse"}
     THEN DispatchMessage(buf.body)
     ELSE DropMessage(buf)
  /\ UNCHANGED <<merge, event_join_ignore, other_vars>>

\* notify_message on the bytes the transport received: return on an empty
\* buffer, match on the tag byte, decode, and call the handler of the type if
\* the decoded message is of that type.
NotifyMessageBytes(buf, encryption) ==
  /\ pending' = pending \ {buf}
  /\ IF buf.empty
     THEN DropMessage(buf)
     ELSE LET ty == try_from(buf.tag, encryption) IN
          CASE ty \in {"Leave", "Join", "UserEvent", "Query", "QueryResponse"} ->
                 IF buf.body.ty = ty THEN DispatchMessage(buf.body) ELSE DropMessage(buf)
            [] ty = "Relay" ->
                 IF buf.body.ty = "RelayBody" THEN RelayMessage(buf) ELSE DropMessage(buf)
            [] OTHER -> DropMessage(buf)
  /\ UNCHANGED <<merge, event_join_ignore, other_vars>>

\* broadcast_messages: the transport asks for broadcasts to piggyback. The
\* broadcasts handed out have transmits left and stay queued.
BroadcastMessages(overhead, limit) ==
  /\ out' = broadcast_messages(queues, overhead, limit)
  /\ queues' = queues
  /\ last' = Call("broadcast_messages", NoMsg, FALSE)
  /\ UNCHANGED <<clock, event_clock, query_clock, query_core, members, event_core,
                 event_join_ignore, event_tx, merge, pending, threads, last_time, sent,
                 responders, reaper, snapshot, join_result, service_vars>>

\* notify_leave with the clock of the reaper: a member that becomes Failed or
\* Left is entered in its table with the time it left, and a MemberReap event
\* of an earlier life of the node is history.
TimedNotifyLeave(node) ==
  /\ members' = handle_node_leave(members, node)
  /\ reaper' = IF members' # members
                THEN [reaper EXCEPT !.leave_time[node] = reaper.now, !.events[node] = 0]
                ELSE reaper
  /\ last' = Call("notify_leave", [NoMsg EXCEPT !.node = node], FALSE)
  /\ UNCHANGED <<clock, event_clock, query_clock, query_core, event_core, event_join_ignore,
                 event_tx, merge, pending, queues, threads, last_time, sent, out, responders, snapshot, join_result, service_vars>>

\* The monotonic clock advances; the timer of the reaper does not let its
\* sweep fall behind.
Tick ==
  /\ reaper.now < MaxNow
  /\ reaper.now < reaper.next_sweep
  /\ reaper' = [reaper EXCEPT !.now = @ + 1]
  /\ UNCHANGED <<clock, event_clock, query_clock, query_core, members, event_core,
                 event_join_ignore, event_tx, merge, last, pending, queues, threads,
                 last_time, sent, out, responders, snapshot, join_result, service_vars>>

\* The timer of the reaper fires: one sweep, a MemberReap event for every
\* member removed, and the timer is set again.
Reap ==
  /\ reaper.now = reaper.next_sweep
  /\ members' = reap(members, reaper.leave_time, reaper.now)
  /\ reaper' = [reaper EXCEPT
                  !.next_sweep = reaper.now + ReapInterval,
                  !.events = [n \in Nodes |->
                                IF members.states[n] # NoMember /\ members'.states[n] = NoMember
                                THEN @[n] + 1 ELSE @[n]]]
  /\ last' = Call("reap", NoMsg, FALSE)
  /\ UNCHANGED <<clock, event_clock, query_clock, query_core, event_core,
                 event_join_ignore, event_tx, merge, pending, queues, threads,
                 last_time, sent, out, responders, snapshot, join_result, service_vars>>

\* One join call: the transport tries every peer and announces those it
\* reached, the join is broadcast if any peer was reached, and
\* event_join_ignore, raised for the time of the call, is down again.
Join(existing, reached, broadcast_ok) ==
  /\ merge.pc = "idle"
  /\ existing # {}
  /\ join_result' = join(existing, reached, broadcast_ok)
  /\ members' = handle_node_joins(members, existing \cap reached)
  /\ last' = Call("join", NoMsg, FALSE)
  /\ UNCHANGED <<clock, event_clock, query_clock, query_core, event_core,
                 event_join_ignore, event_tx, merge, pending, queues, threads,
                 last_time, sent, out, responders, reaper, snapshot, service_vars>>

\* The snapshot writer appends the three clocks as they stand.
RecordClocks ==
  /\ ~snapshot.restarted
  /\ snapshot' = [snapshot EXCEPT !.clock = clock, !.event_clock = event_clock,
                                   !.query_clock = query_clock]
  /\ UNCHANGED <<clock, event_clock, query_clock, query_core, members, event_core,
                 event_join_ignore, event_tx, merge, last, pending, queues, threads,
                 last_time, sent, out, responders, reaper, join_result, service_vars>>

\* The node is killed and boots from its snapshot log: a new node with empty
\* tables and an empty user event channel, the three clocks restored (set to
\* the recorded values, or made to witness them) and the minimum times set.
Restart ==
  /\ ~snapshot.restarted
  /\ snapshot' = [snapshot EXCEPT !.restarted = TRUE]
  /\ \E by_witness \in BOOLEAN :
       /\ clock' = IF by_witness THEN witness(0, snapshot.clock) ELSE snapshot.clock
       /\ event_clock' = IF by_witness THEN witness(0, snapshot.event_clock)
                          ELSE snapshot.event_clock
       /\ query_clock' = IF by_witness THEN witness(0, snapshot.query_clock)
                          ELSE snapshot.query_clock
  /\ event_core' = [EmptyEventCore EXCEPT !.min_time = restore(snapshot).event_min_time]
  /\ query_core' = [EmptyQueryCore EXCEPT !.min_time = restore(snapshot).query_min_time]
  /\ members' = EmptyMembers
  /\ event_tx' = [k \in EventKeys |-> 0]
  /\ merge' = IdleMerge
  /\ last' = Call("restart", NoMsg, FALSE)
  /\ UNCHANGED <<event_join_ignore, pending, queues, threads, last_time, sent, out,
                 responders, reaper, join_result, service_vars>>

\* notify_message on a query, with the handler it invokes: a query that
\* handle_query accepts becomes a query event in the hands of the handler.
NotifyQuery(msg) ==
  /\ DispatchMessage(msg)
  /\ pending' = pending \ {msg}
  /\ responders' = IF last'.rebroadcast
                    THEN [responders EXCEPT
                            !.events[QueryKey(msg)] = [NoQueryEvent EXCEPT !.delivered = TRUE]]
                    ELSE responders
  /\ UNCHANGED <<merge, event_join_ignore, threads, last_time, sent, out, reaper, snapshot, join_result, service_vars>>

\* A task that holds the query event calls respond.
RespondCall(p, key) ==
  /\ responders.tasks[p].pc = "idle"
  /\ responders.tasks[p].calls < MaxResponds
  /\ responders.events[key].delivered
  /\ responders' = [responders EXCEPT
                      !.tasks[p] = [pc |-> "called", key |-> key, result |-> "none",
                                    calls |-> @.calls + 1]]
  /\ UNCHANGED <<clock, event_clock, query_clock, query_core, members, event_core,
                 event_join_ignore, event_tx, merge, last, pending, queues, threads,
                 last_time, sent, out, reaper, snapshot, join_result, service_vars>>

\* The respond call of the task takes the lock of the event, decides and returns.
RespondReturn(p) ==
  /\ responders.tasks[p].pc = "called"
  /\ LET key == responders.tasks[p].key
         r == respond(responders.events[key])
     IN responders' = [responders EXCEPT
                         !.events[key] = r.event,
                         !.tasks[p].pc = "idle",
                         !.tasks[p].result = r.result]
  /\ UNCHANGED <<clock, event_clock, query_clock, query_core, members, event_core,
                 event_join_ignore, event_tx, merge, last, pending, queues, threads,
                 last_time, sent, out, reaper, snapshot, join_result, service_vars>>

\* notify_join: the transport announces a node.
NotifyJoin(node) ==
  /\ members' = handle_node_join(members, node)
  /\ last' = Call("notify_join", [NoMsg EXCEPT !.node = node], FALSE)
  /\ UNCHANGED <<clock, event_clock, query_clock, query_core, event_core, event_join_ignore,
                 event_tx, merge, pending, queues, other_vars>>

\* notify_leave: the transport reports a node gone.
NotifyLeave(node) ==
  /\ members' = handle_node_leave(members, node)
  /\ last' = Call("notify_leave", [NoMsg EXCEPT !.node = node], FALSE)
  /\ UNCHANGED <<clock, event_clock, query_clock, query_core, event_core, event_join_ignore,
                 event_tx, merge, pending, queues, other_vars>>

\* join(existing, ignore_old) raises event_join_ignore for the time of the join.
SetEventJoinIgnore(b) ==
  /\ merge.pc = "idle"
  /\ event_join_ignore # b
  /\ event_join_ignore' = b
  /\ last' = Call("join", NoMsg, FALSE)
  /\ UNCHANGED <<clock, event_clock, query_clock, query_core, members, event_core, event_tx,
                 merge, pending, queues, other_vars>>

\* LamportTime::sub in a build without overflow checks: the difference of two
\* unsigned values of the clock's width, which wraps below zero.
sub(a, b) == (a - b) % (MaxClock + 1)

\* A merge that witnesses one less than the remote value without looking at it.
WitnessRemoteUnguarded(c, remote) ==
  LET t == (remote - 1) % (MaxClock + 1) IN IF c >= t THEN c ELSE t + 1

\* The clock after merge_remote_state has witnessed a remote value: one less
\* than it, and only if it is above zero.
WitnessRemote(c, remote) == IF remote > 0 THEN witness(c, sub(remote, 1)) ELSE c

\* A merge that makes a Join intent of every entry of status_ltimes.
MergeRemoteStateJoinAll(pp, is_join) ==
  /\ merge.pc = "idle"
  /\ clock' = WitnessRemote(clock, pp.ltime)
  /\ event_clock' = WitnessRemote(event_clock, pp.event_ltime)
  /\ query_clock' = WitnessRemote(query_clock, pp.query_ltime)
  /\ merge' = [pc |-> "running", is_join |-> is_join, pp |-> pp,
               left |-> pp.left_members, joins |-> DOMAIN pp.status_ltimes,
               min_done |-> FALSE, events |-> pp.events,
               pre |-> <<clock, event_clock, query_clock>>]
  /\ last' = Call("merge_remote_state", NoMsg, FALSE)
  /\ UNCHANGED <<members, query_core, event_core, event_join_ignore, event_tx, pending, queues, other_vars>>

\* merge_remote_state, up to the first handler call: witness the three clocks.
MergeRemoteState(pp, is_join) ==
  /\ merge.pc = "idle"
  /\ clock' = WitnessRemote(clock, pp.ltime)
  /\ event_clock' = WitnessRemote(event_clock, pp.event_ltime)
  /\ query_clock' = WitnessRemote(query_clock, pp.query_ltime)
  /\ merge' = [pc |-> "running", is_join |-> is_join, pp |-> pp,
               left |-> pp.left_members,
               joins |-> (DOMAIN pp.status_ltimes) \ pp.left_members,
               min_done |-> FALSE, events |-> pp.events,
               pre |-> <<clock, event_clock, query_clock>>]
  /\ last' = Call("merge_remote_state", NoMsg, FALSE)
  /\ UNCHANGED <<members, query_core, event_core, event_join_ignore, event_tx, pending, queues, other_vars>>

\* The bytes of a push/pull state.
PushPullBody(pp) == [ty |-> "PushPull", pp |-> pp]

\* merge_remote_state returns on an empty buffer, a bad type prefix, bytes
\* that do not decode or a message that is no PushPull.
DropRemoteState(buf) ==
  /\ merge.pc = "idle"
  /\ last' = Call("merge_dropped", NoMsg, FALSE)
  /\ UNCHANGED <<clock, event_clock, query_clock, query_core, members, event_core,
                 event_join_ignore, event_tx, merge, pending, queues, other_vars>>

\* merge_remote_state on the bytes the transport received.
MergeRemoteStateBytes(buf, is_join, encryption) ==
  IF /\ ~buf.empty
     /\ try_from(buf.tag, encryption) = "PushPull"
     /\ buf.body.ty = "PushPull"
  THEN MergeRemoteState(buf.body.pp, is_join)
  ELSE DropRemoteState(buf)

\* A merge that gives up at a left member without a status ltime.
MergeLeaveStopsAtMissing(node) ==
  /\ merge.pc = "running"
  /\ node \in merge.left
  /\ IF node \in DOMAIN merge.pp.status_ltimes
     THEN /\ HandleIntent("merge", LeaveMessage(node, merge.pp.status_ltimes[node], FALSE))
          /\ merge' = [merge EXCEPT !.left = @ \ {node}]
     ELSE /\ last' = Call("merge_skip", [NoMsg EXCEPT !.node = node], FALSE)
          /\ merge' = IdleMerge
          /\ UNCHANGED <<clock, event_clock, query_clock, query_core, members, event_core, event_tx>>
  /\ UNCHANGED <<event_join_ignore, pending, queues, other_vars>>

\* for node in &pp.left_members: a Leave intent at the node's status ltime.
MergeLeave(node) ==
  /\ merge.pc = "running"
  /\ node \in merge.left
  /\ IF node \in DOMAIN merge.pp.status_ltimes
     THEN HandleIntent("merge", LeaveMessage(node, merge.pp.status_ltimes[node], FALSE))
     ELSE /\ last' = Call("merge_skip", [NoMsg EXCEPT !.node = node], FALSE)
          /\ UNCHANGED <<clock, event_clock, query_clock, query_core, members, event_core, event_tx>>
  /\ merge' = [merge EXCEPT !.left = @ \ {node}]
  /\ UNCHANGED <<event_join_ignore, pending, queues, other_vars>>

\* A merge whose two loops run in no fixed order.
MergeJoinAnyTime(node) ==
  /\ merge.pc = "running"
  /\ node \in merge.joins
  /\ HandleIntent("merge", JoinMessage(node, merge.pp.status_ltimes[node]))
  /\ merge' = [merge EXCEPT !.joins = @ \ {node}]
  /\ UNCHANGED <<event_join_ignore, pending, queues, other_vars>>

\* for (node, ltime) in pp.status_ltimes, skipping the left nodes: a Join intent.
MergeJoin(node) ==
  /\ merge.pc = "running"
  /\ merge.left = {}
  /\ node \in merge.joins
  /\ HandleIntent("merge", JoinMessage(node, merge.pp.status_ltimes[node]))
  /\ merge' = [merge EXCEPT !.joins = @ \ {node}]
  /\ UNCHANGED <<event_join_ignore, pending, queues, other_vars>>

\* A merge that takes the remote event_ltime as event_min_time every time.
MergedMinTimeAlways(ec, pp, is_join, ignore) == [ec EXCEPT !.min_time = pp.event_ltime]

\* event_min_time after the is_join && event_join_ignore branch.
MergedMinTime(ec, pp, is_join, ignore) ==
  IF is_join /\ ignore /\ pp.event_ltime > ec.min_time
  THEN [ec EXCEPT !.min_time = pp.event_ltime]
  ELSE ec

MergeMinTime ==
  /\ merge.pc = "running"
  /\ merge.left = {} /\ merge.joins = {}
  /\ ~merge.min_done
  /\ event_core' = MergedMinTime(event_core, merge.pp, merge.is_join, event_join_ignore)
  /\ merge' = [merge EXCEPT !.min_done = TRUE]
  /\ last' = Call("merge_min_time", NoMsg, FALSE)
  /\ UNCHANGED <<clock, event_clock, query_clock, query_core, members, event_join_ignore,
                 event_tx, pending, queues, other_vars>>

\* A merge that queues the events its handler wants rebroadcast.
MergeEventQueues ==
  /\ merge.pc = "running"
  /\ merge.min_done
  /\ merge.events # <<>>
  /\ HandleUserEvent("merge", Head(merge.events))
  /\ merge' = [merge EXCEPT !.events = Tail(@)]
  /\ queues' = IF last'.rebroadcast
                THEN queue_broadcast(queues, "event_broadcasts", Head(merge.events))
                ELSE queues
  /\ UNCHANGED <<event_join_ignore, pending, other_vars>>

\* for events in pp.events: each event through handle_user_event.
MergeEvent ==
  /\ merge.pc = "running"
  /\ merge.min_done
  /\ merge.events # <<>>
  /\ HandleUserEvent("merge", Head(merge.events))
  /\ merge' = [merge EXCEPT !.events = Tail(@)]
  /\ UNCHANGED <<event_join_ignore, pending, queues, other_vars>>

\* merge_remote_state has gone through the whole push/pull state.
MergeDone ==
  /\ merge.pc = "running"
  /\ merge.left = {} /\ merge.joins = {}
  /\ merge.min_done
  /\ merge.events = <<>>

\* merge_remote_state returns.
MergeReturn ==
  /\ MergeDone
  /\ merge' = IdleMerge
  /\ last' = Call("merge_return", NoMsg, FALSE)
  /\ UNCHANGED <<clock, event_clock, query_clock, query_core, members, event_core,
                 event_join_ignore, event_tx, pending, queues, other_vars>>

(***************************************************************************)
(* Inputs and specifications of the node                                   *)
(***************************************************************************)

\* Largest number of events in the buckets of one push/pull state.
MaxPushPullEvents == 1

StatusLtimes == UNION {[S -> 1..MaxTime] : S \in SUBSET Nodes}

RECURSIVE EventSeqs(_)
EventSeqs(len) ==
  IF len = 0 THEN {<<>>}
  ELSE EventSeqs(len - 1)
         \cup {Append(ev, e) : ev \in EventSeqs(len - 1), e \in UserEventMessages}

\* Push/pull states that vary the roster.
MemberPushPulls ==
  {PushPull(l, sl, lm, 0, <<>>, 0) :
     l \in {0, MaxTime}, sl \in StatusLtimes, lm \in SUBSET Nodes}
\* Push/pull states that vary the three clocks.
ClockPushPulls ==
  {PushPull(l, NoStatusLtimes, {}, e, <<>>, q) :
     l \in 0..MaxTime, e \in 0..MaxTime, q \in 0..MaxTime}
\* Push/pull states that vary the event buckets.
EventPushPulls ==
  {PushPull(0, NoStatusLtimes, {}, e, ev, 0) :
     e \in 0..MaxTime, ev \in EventSeqs(MaxPushPullEvents)}

\* No merge_remote_state call is in progress.
Idle == merge.pc = "idle"

\* The membership side of the node: intents by gossip, the transport's
\* notifications and push/pull rosters, one callback at a time.
Next ==
  \/ \E pp \in MemberPushPulls, is_join \in BOOLEAN : MergeRemoteState(pp, is_join)
  \/ \E node \in Nodes : MergeLeave(node)
  \/ \E node \in Nodes : MergeJoin(node)
  \/ MergeMinTime
  \/ MergeReturn
  \/ \E msg \in IntentMessages : Idle /\ NotifyMessage(msg)
  \/ \E node \in Nodes : Idle /\ NotifyJoin(node)
  \/ \E node \in Nodes : Idle /\ NotifyLeave(node)

Spec == Init /\ [][Next]_vars

\* The rosters of push/pull states against a table that the transport's
\* notifications and earlier merges have filled.
RosterNext ==
  \/ \E pp \in MemberPushPulls, is_join \in BOOLEAN : MergeRemoteState(pp, is_join)
  \/ \E node \in Nodes : MergeLeave(node)
  \/ \E node \in Nodes : MergeJoin(node)
  \/ MergeMinTime
  \/ MergeReturn
  \/ \E node \in Nodes : Idle /\ NotifyJoin(node)
  \/ \E node \in Nodes : Idle /\ NotifyLeave(node)

RosterSpec == Init /\ [][RosterNext]_vars

\* Push/pull states whose left_members need not be in status_ltimes, with or
\* without an event bucket.
StrayLeftPushPulls ==
  {PushPull(0, sl, lm, MaxTime, ev, 0) :
     sl \in StatusLtimes,
     lm \in SUBSET Nodes,
     ev \in {<<>>, <<UserEventMessage(MaxTime, "deploy")>>}}

\* Push/pull states with such left members against a table the transport's
\* announcements have filled.
StrayLeftNext ==
  \/ \E pp \in StrayLeftPushPulls, is_join \in BOOLEAN : MergeRemoteState(pp, is_join)
  \/ \E node \in Nodes : MergeLeave(node)
  \/ \E node \in Nodes : MergeJoin(node)
  \/ MergeMinTime
  \/ MergeEvent
  \/ MergeReturn
  \/ \E node \in Nodes : Idle /\ NotifyJoin(node)

StrayLeftSpec == Init /\ [][StrayLeftNext]_vars

\* The events of a set in the order the bucket holds them.
RECURSIVE BucketEvents(_, _)
BucketEvents(ltime, names) ==
  IF names = {} THEN <<>>
  ELSE LET nm == CHOOSE x \in names : TRUE
       IN <<UserEventMessage(ltime, nm)>> \o BucketEvents(ltime, names \ {nm})

\* events.buffer.as_slice(): the buckets of the ring from slot 0 on; an empty
\* slot holds no events.
RECURSIVE BufferEvents(_, _)
BufferEvents(buffer, idx) ==
  IF idx = EventBufferSize THEN <<>>
  ELSE BucketEvents(buffer[idx].ltime, buffer[idx].events)
         \o BufferEvents(buffer, idx + 1)

\* The PushPullRef local_state builds from the node's clocks, tables and ring.
LocalPushPull ==
  PushPull(clock,
           [n \in KnownNodes(members) |-> members.states[n].status_time],
           members.left_members,
           event_clock,
           BufferEvents(event_core.buffer, 0),
           query_clock)

\* local_state: the PushPull tag byte and the encoded state, or no bytes at
\* all when the encoder fails.
local_state(encoded) ==
  IF encoded THEN Bytes(2, PushPullBody(LocalPushPull)) ELSE EmptyBytes

\* The bytes of local_state handed to merge_remote_state on the same node.
MergeLocalState(encoded) ==
  /\ Idle
  /\ MergeRemoteStateBytes(local_state(encoded), FALSE, FALSE)

\* The node under gossip, the transport's notifications and merges of its own
\* push/pull state, one callback at a time.
SelfMergeNext ==
  \/ \E encoded \in BOOLEAN : MergeLocalState(encoded)
  \/ \E node \in Nodes : MergeLeave(node)
  \/ \E node \in Nodes : MergeJoin(node)
  \/ MergeMinTime
  \/ MergeEvent
  \/ MergeReturn
  \/ \E t \in 1..MaxTime : Idle /\ NotifyMessage(LeaveMessage("B", t, FALSE))
  \/ \E t \in 0..MaxTime : Idle /\ NotifyMessage(UserEventMessage(t, "deploy"))
  \/ \E node \in Nodes : Idle /\ NotifyJoin(node)
  \/ \E node \in Nodes : Idle /\ NotifyLeave(node)

SelfMergeSpec == Init /\ [][SelfMergeNext]_vars

\* The clocks of the node under push/pull: remote clock values against local
\* clocks moved by gossip, one callback at a time.
PushPullNext ==
  \/ \E pp \in ClockPushPulls, is_join \in BOOLEAN : MergeRemoteState(pp, is_join)
  \/ MergeMinTime
  \/ MergeReturn
  \/ \E t \in 0..MaxTime : Idle /\ NotifyMessage(JoinMessage("A", t))
  \/ \E t \in 0..MaxTime : Idle /\ NotifyMessage(UserEventMessage(t, "deploy"))

PushPullSpec == Init /\ [][PushPullNext]_vars

\* The event side of the node: user events by gossip while a push/pull merge
\* (of a join or of anti-entropy) is in progress on another task.
EventNext ==
  \/ \E pp \in EventPushPulls, is_join \in BOOLEAN : MergeRemoteState(pp, is_join)
  \/ MergeMinTime
  \/ MergeEvent
  \/ MergeReturn
  \/ \E msg \in UserEventMessages : NotifyMessage(msg)
  \/ \E b \in BOOLEAN : SetEventJoinIgnore(b)

EventSpec == Init /\ [][EventNext]_vars

\* Push/pull states that vary the event_ltime, with no event or with one event
\* of the latest time.
JoinPushPulls ==
  {PushPull(0, NoStatusLtimes, {}, e, ev, 0) :
     e \in 0..MaxTime, ev \in {<<>>, <<UserEventMessage(MaxTime, "deploy")>>}}

\* Joins and anti-entropy merges in turn, with event_join_ignore raised for
\* some joins.
JoinIgnoreNext ==
  \/ \E pp \in JoinPushPulls, is_join \in BOOLEAN : MergeRemoteState(pp, is_join)
  \/ MergeMinTime
  \/ MergeEvent
  \/ MergeReturn
  \/ \E b \in BOOLEAN : SetEventJoinIgnore(b)

JoinIgnoreSpec == Init /\ [][JoinIgnoreNext]_vars

\* The delivery of user events: each handle_user_event call holds the event
\* core for its whole decision, so what a node does with an event depends on
\* the order of the calls alone; here gossip and the buckets of push/pull
\* states (of one event, or of more) take turns.
DeliveryNext ==
  \/ \E pp \in EventPushPulls, is_join \in BOOLEAN : MergeRemoteState(pp, is_join)
  \/ MergeMinTime
  \/ MergeEvent
  \/ MergeReturn
  \/ \E msg \in UserEventMessages : Idle /\ NotifyMessage(msg)

DeliverySpec == Init /\ [][DeliveryNext]_vars

\* Largest number of broadcasts the queues hold before the transport takes some.
MaxQueued == 2

\* Tag bytes the transport may hand over: the message types, a byte past the
\* last of them, the key tags of the encryption feature and the last byte.
TagBytes == {0, 1, 2, 3, 4, 5, 6, 7, 8, 253, 254, 255}

\* What the bytes after the tag may decode to.
Bodies ==
  {JoinMessage("A", t) : t \in {1, MaxTime}}
    \cup {LeaveMessage("A", t, FALSE) : t \in {1, MaxTime}}
    \cup {UserEventMessage(MaxTime, "deploy"), QueryMessage(MaxTime, "q1"),
          QueryResponseMessage(MaxTime, "q1", "A"),
          RelayBody(<<66>>, <<3, MaxTime>>),
          PushPullBody(PushPull(MaxTime, NoStatusLtimes, {}, MaxTime, <<>>, MaxTime)),
          DecodeError}

\* The body is of the type the tag byte announces.
TagMatches(tag, body) ==
  try_from(tag, TRUE) = (IF body.ty = "RelayBody" THEN "Relay" ELSE body.ty)

\* Bodies that come behind any tag byte, the wrong ones included.
StrayBodies == {JoinMessage("A", MaxTime), UserEventMessage(MaxTime, "deploy"), DecodeError}

\* Bytes from the wire: none, or a tag byte followed by the body it announces,
\* by a body of another type or by bytes that do not decode.
WireInputs ==
  {EmptyBytes}
    \cup {Bytes(tb[1], tb[2]) :
            tb \in {x \in TagBytes \X Bodies : x[2] \in StrayBodies \/ TagMatches(x[1], x[2])}}

QueuedTotal ==
  Len(queues.broadcasts) + Len(queues.event_broadcasts) + Len(queues.query_broadcasts)

\* The transport has received bytes and is about to hand them to a callback.
Receive(buf) ==
  /\ Idle
  /\ QueuedTotal < MaxQueued
  /\ pending' = {buf}
  /\ UNCHANGED <<clock, event_clock, query_clock, query_core, members, event_core,
                 event_join_ignore, event_tx, merge, last, queues, other_vars>>

\* A node whose broadcast queues are followed.
GossipInit ==
  /\ clock = 0
  /\ event_clock = 0
  /\ query_clock = 0
  /\ members = EmptyMembers
  /\ event_core = EmptyEventCore
  /\ event_join_ignore = FALSE
  /\ event_tx = [k \in EventKeys |-> 0]
  /\ merge = IdleMerge
  /\ last = NoCall
  /\ threads = [p \in Threads |-> IdleThread]
  /\ last_time = 0
  /\ pending = {}
  /\ sent = [members |-> EmptyMembers, intents |-> {}]
  /\ query_core = EmptyQueryCore
  /\ queues = EmptyQueues
  /\ IdleServices

\* The callbacks on bytes from the wire, well-formed or not, one at a time;
\* the transport announces node A in between.
GossipNext ==
  \/ \E buf \in WireInputs : Receive(buf)
  \/ \E buf \in pending, encryption \in BOOLEAN :
       Idle /\ NotifyMessageBytes(buf, encryption)
  \/ \E buf \in pending, is_join \in BOOLEAN, encryption \in BOOLEAN :
       MergeRemoteStateBytes(buf, is_join, encryption)
  \/ MergeMinTime
  \/ MergeReturn
  \/ Idle /\ NotifyJoin("A")

GossipSpec == GossipInit /\ [][GossipNext]_vars

\* Push/pull states with a roster and an event bucket that are news to the
\* node, or old.
QueuedPushPulls ==
  {PushPull(MaxTime, sl, lm, MaxTime, ev, 0) :
     sl \in {[n \in Nodes |-> MaxTime]},
     lm \in {{}, {"B"}},
     ev \in {<<UserEventMessage(t, "deploy")>> : t \in 1..MaxTime}}

\* Merges of such states on a node whose broadcast queues are followed, among
\* gossip that does get queued.
MergeQueueNext ==
  \/ \E pp \in QueuedPushPulls, is_join \in BOOLEAN : MergeRemoteState(pp, is_join)
  \/ \E node \in Nodes : MergeLeave(node)
  \/ \E node \in Nodes : MergeJoin(node)
  \/ MergeMinTime
  \/ MergeEvent
  \/ MergeReturn
  \/ \E msg \in {JoinMessage("A", 1), UserEventMessage(1, "build"), QueryMessage(1, "q1")} :
       /\ Idle
       /\ QueuedTotal < MaxQueued
       /\ NotifyMessage(msg)
  \/ \E node \in Nodes : Idle /\ NotifyJoin(node)

MergeQueueSpec == GossipInit /\ [][MergeQueueNext]_vars

\* Longest run of bytes behind a Relay tag.
MaxRelayLen == 3
\* The bytes they are made of: short lengths, and the UserEvent tag.
RelayByteValues == {0, 1, 2, 3}

RECURSIVE ByteSeqs(_)
ByteSeqs(len) ==
  IF len = 0 THEN {<<>>}
  ELSE ByteSeqs(len - 1) \cup
       {Append(bs, b) : bs \in {q \in ByteSeqs(len - 1) : Len(q) = len - 1},
                        b \in RelayByteValues}

\* Relay messages from the wire: the tag byte, then any bytes: a whole
\* destination followed by a message or by nothing, or a destination cut short.
RelayInputs == {Bytes(7, RelayBytes(raw)) : raw \in ByteSeqs(MaxRelayLen)}

\* A node that is handed Relay messages among user events and the transport's
\* announcement of node A.
\* The send of a relayed message is over; the transport goes on.
SendReturns ==
  /\ last.op = "relay"
  /\ last' = NoCall
  /\ UNCHANGED verdict_frame

RelayNext ==
  \/ \E buf \in RelayInputs \cup {Bytes(3, UserEventMessage(MaxTime, "deploy"))} :
       last.op # "relay" /\ Receive(buf)
  \/ SendReturns
  \/ \E buf \in pending, encryption \in BOOLEAN :
       Idle /\ NotifyMessageBytes(buf, encryption)
  \/ Idle /\ NotifyJoin("A")

RelaySpec == GossipInit /\ [][RelayNext]_vars

\* Largest limit the transport passes to broadcast_messages.
MaxLimit == 6
\* Largest number of broadcasts queued before the transport asks for some.
MaxBacklog == 3
\* Per-message overheads of the transport.
Overheads == {0, 1}

\* Gossip that fills the three queues.
QueueInputs ==
  {JoinMessage("A", t) : t \in 1..MaxTime}
    \cup {UserEventMessage(t, "deploy") : t \in 1..MaxTime}
    \cup {QueryMessage(t, "q1") : t \in 1..MaxTime}

\* The broadcast queues between gossip that fills them and the transport that
\* asks for broadcasts.
QueueNext ==
  \/ \E msg \in QueueInputs :
       /\ Idle
       /\ QueuedTotal < MaxBacklog
       /\ NotifyMessage(msg)
  \/ \E overhead \in Overheads, limit \in 0..MaxLimit : BroadcastMessages(overhead, limit)

QueueSpec == GossipInit /\ [][QueueNext]_vars

\* Queries that reach the node, few enough to stay in the ring of seen queries.
RespondInputs == {QueryMessage(MaxTime, i) : i \in QueryIds}

\* Queries that reach a node and handlers whose tasks respond to them, each
\* task at its own pace.
RespondNext ==
  \/ \E msg \in RespondInputs : Idle /\ NotifyQuery(msg)
  \/ \E p \in Responders, key \in QueryKeys : RespondCall(p, key)
  \/ \E p \in Responders : RespondReturn(p)

RespondSpec == Init /\ [][RespondNext]_vars

\* The reaper beside the transport: nodes join, leave and fail while the
\* clock runs and the reaper sweeps.
ReapNext ==
  \/ \E node \in Nodes : Idle /\ NotifyJoin(node)
  \/ \E node \in Nodes : Idle /\ NotifyMessage(LeaveMessage(node, MaxTime, FALSE))
  \/ \E node \in Nodes : TimedNotifyLeave(node)
  \/ Tick
  \/ Reap

ReapSpec == Init /\ [][ReapNext]_vars

\* A node that receives user events and queries, writes its clocks to the
\* snapshot log now and then, is killed and boots from the log.
SnapshotNext ==
  \/ \E msg \in UserEventMessages : Idle /\ NotifyMessage(msg)
  \/ \E msg \in RespondInputs : Idle /\ NotifyMessage(msg)
  \/ RecordClocks
  \/ Restart

SnapshotSpec == Init /\ [][SnapshotNext]_vars

\* join calls on a node whose peers come and go.
JoinNext ==
  \/ \E existing \in SUBSET Nodes, reached \in SUBSET Nodes, broadcast_ok \in BOOLEAN :
       Join(existing, reached, broadcast_ok)
  \/ \E node \in Nodes : Idle /\ NotifyLeave(node)
  \/ \E node \in Nodes, t \in 1..MaxTime :
       Idle /\ NotifyMessage(LeaveMessage(node, t, FALSE))

JoinSpec == Init /\ [][JoinNext]_vars

\* Gossip for the three buffers: an intent for each node, and user events and
\* queries at every ltime from 1.
BufferInputs ==
  {LeaveMessage(n, MaxTime, FALSE) : n \in Nodes}
    \cup {UserEventMessage(t, "deploy") : t \in 1..MaxTime}
    \cup {QueryMessage(t, "q1") : t \in 1..MaxTime}
    \cup {QueryMessage(MaxTime, "q2")}

\* The buffers of the node under gossip, with the transport announcing nodes.
BufferNext ==
  \/ \E msg \in BufferInputs : Idle /\ NotifyMessage(msg)
  \/ \E node \in Nodes : Idle /\ NotifyJoin(node)

BufferSpec == Init /\ [][BufferNext]_vars

\* Largest number of intents in flight for one node.
MaxIntents == 3

\* A table that knows one node, in the given status.
MemberTable(node, status, ltime) ==
  [EmptyMembers EXCEPT
     !.states[node] = [status |-> status, status_time |-> ltime],
     !.failed_members = IF status = "Failed" THEN {node} ELSE {},
     !.left_members = IF status = "Left" THEN {node} ELSE {}]

\* The tables the in-flight intents may meet: the node unknown, or known in a
\* status and at a status ltime that gossip and the transport can produce.
StartMembers ==
  {EmptyMembers}
    \cup {MemberTable("A", st, t) : st \in {"Alive", "Failed"}, t \in 0..1}
    \cup {MemberTable("A", st, 1) : st \in {"Leaving", "Left"}}

IntentSets ==
  {S \in SUBSET {msg \in IntentMessages : msg.node = "A"} : Cardinality(S) <= MaxIntents}

\* One intent through its handler, on the table alone.
ApplyIntent(m, msg) ==
  IF msg.ty = "Leave"
  THEN handle_node_leave_intent(m, msg).members
  ELSE handle_node_join_intent(m, msg).members

\* The table after handling the intents in descending ltime order.
RECURSIVE InDescendingOrder(_, _)
InDescendingOrder(m, S) ==
  IF S = {} THEN m
  ELSE LET msg == CHOOSE x \in S : \A y \in S : x.ltime >= y.ltime
       IN InDescendingOrder(ApplyIntent(m, msg), S \ {msg})

\* A set of intents for one node in flight towards a node whose table is in
\* one of the start states; gossip delivers them in any order.
IntentInit ==
  \E m \in StartMembers, S \in IntentSets :
    /\ members = m
    /\ pending = S
    /\ sent = [members |-> m, intents |-> S]
    /\ clock = LET t == m.states["A"].status_time IN IF t > 0 THEN t + 1 ELSE 0
    /\ event_clock = 0
    /\ query_clock = 0
    /\ event_core = EmptyEventCore
    /\ event_join_ignore = FALSE
    /\ event_tx = [k \in EventKeys |-> 0]
    /\ merge = IdleMerge
    /\ last = NoCall
    /\ threads = [p \in Threads |-> IdleThread]
    /\ last_time = 0
    /\ query_core = EmptyQueryCore
    /\ queues = UntrackedQueues
  /\ IdleServices

IntentNext == \E msg \in pending : Idle /\ NotifyMessage(msg)

IntentSpec == IntentInit /\ [][IntentNext]_vars

(***************************************************************************)
(* Properties of the LamportClock                                          *)
(***************************************************************************)

\* C1: under any interleaving of witness and increment calls the clock never
\* decreases, so a later time() never returns less than an earlier one.
ClockNeverDecreases == [][clock' >= clock /\ last_time' >= last_time]_vars

\* A witness call has returned after another thread changed the clock under it,
\* and time() has read an advanced clock.
ClockRaceWitness ==
  \E p \in Threads :
    /\ threads[p].pc = "returned"
    /\ threads[p].dirty
    /\ threads[p].time >= threads[p].start
    /\ last_time > 0

\* C2: run alone on a clock that read c, witness(t) leaves max(c, t) + 1 when
\* t >= c and c when t < c, so the clock is at least one past t on return.
WitnessAloneSetsMaxPlusOne ==
  \A p \in Threads :
    (threads[p].pc = "returned" /\ ~threads[p].dirty) =>
      /\ clock = IF threads[p].time >= threads[p].start
                 THEN Max(threads[p].start, threads[p].time) + 1
                 ELSE threads[p].start
      /\ clock >= threads[p].time + 1

(***************************************************************************)
(* Properties of push/pull, intents and the membership table               *)
(***************************************************************************)

\* C3: after a merge of a push/pull state whose three Lamport times are all
\* greater than zero, each local clock is at least the remote value, and a local
\* clock that was smaller than the remote value before the merge equals it.
MergeReachesRemoteClocks ==
  (/\ MergeDone
   /\ merge.pp.ltime > 0 /\ merge.pp.event_ltime > 0 /\ merge.pp.query_ltime > 0)
  => /\ clock >= merge.pp.ltime
     /\ event_clock >= merge.pp.event_ltime
     /\ query_clock >= merge.pp.query_ltime
     /\ merge.pre[1] < merge.pp.ltime => clock = merge.pp.ltime
     /\ merge.pre[2] < merge.pp.event_ltime => event_clock = merge.pp.event_ltime
     /\ merge.pre[3] < merge.pp.query_ltime => query_clock = merge.pp.query_ltime

\* The step is a Join or Leave intent going through its handler.
IntentStep ==
  /\ last'.op \in {"notify_message", "merge"}
  /\ last'.msg.ty \in {"Join", "Leave"}

\* C4: a Join or Leave intent for a known node with ltime <= the member's
\* status_ltime changes neither the member's status nor its status_ltime nor
\* the number of members, and the handler returns rebroadcast = false.
StaleIntentIgnored ==
  [][(/\ IntentStep
      /\ members.states[last'.msg.node] # NoMember
      /\ last'.msg.ltime <= members.states[last'.msg.node].status_time)
     => /\ members'.states[last'.msg.node] = members.states[last'.msg.node]
        /\ Cardinality(KnownNodes(members')) = Cardinality(KnownNodes(members))
        /\ ~last'.rebroadcast]_vars

\* A Leave with a lower ltime has just reached a node that is Alive at a
\* higher status_ltime and was not rebroadcast.
StaleLeaveWitness ==
  /\ last.op = "notify_message"
  /\ last.msg.ty = "Leave"
  /\ last.msg.ltime > 0
  /\ members.states[last.msg.node].status = "Alive"
  /\ members.states[last.msg.node].status_time > last.msg.ltime
  /\ Cardinality(KnownNodes(members)) = 2
  /\ ~last.rebroadcast

\* C5 as stated: every order of delivering a set of Join and Leave intents
\* (with or without prune) for a node ends in the (status, status_ltime) that
\* handling them in descending ltime order gives.
AnyOrderEndsAsDescending ==
  pending = {} =>
    members.states["A"] = InDescendingOrder(sent.members, sent.intents).states["A"]

DistinctLtimes(S) == \A x \in S, y \in S : x # y => x.ltime # y.ltime

\* C5, amended: for a node that is Alive or Leaving, every order of delivering
\* a set of Join and Leave intents without prune and with pairwise distinct
\* ltimes ends in the (status, status_ltime) of the descending ltime order.
DistinctOrderEndsAsDescending ==
  (/\ pending = {}
   /\ sent.members.states["A"].status \in {"Alive", "Leaving"}
   /\ DistinctLtimes(sent.intents)
   /\ \A msg \in sent.intents : ~msg.prune)
  => members.states["A"] = InDescendingOrder(sent.members, sent.intents).states["A"]

\* Three intents with distinct ltimes have all arrived, the last of them stale
\* (so not in descending order), at a node that was Alive.
OutOfOrderWitness ==
  /\ pending = {}
  /\ Cardinality(sent.intents) = 3
  /\ DistinctLtimes(sent.intents)
  /\ \A msg \in sent.intents : ~msg.prune
  /\ sent.members.states["A"].status = "Alive"
  /\ last.msg.ty = "Leave"
  /\ ~last.rebroadcast
  /\ members.states["A"].status_time = MaxTime

TablesOf(m, n) ==
  (IF m.states[n] # NoMember THEN {"states"} ELSE {})
    \cup (IF n \in m.failed_members THEN {"failed_members"} ELSE {})
    \cup (IF n \in m.left_members THEN {"left_members"} ELSE {})

\* C7 as stated: each known NodeId has its Member in exactly one of the live
\* table, the failed table and the left table.
InExactlyOneTable ==
  \A n \in Nodes :
    TablesOf(members, n) # {} => Cardinality(TablesOf(members, n)) = 1

\* C7, amended: each known NodeId has exactly one Member, in `states`; it is
\* listed in failed_members as well exactly when its status is Failed and in
\* left_members as well exactly when its status is Left, never in both.
OneMemberListedByStatus ==
  \A n \in Nodes :
    /\ n \in members.failed_members <=> members.states[n].status = "Failed"
    /\ n \in members.left_members <=> members.states[n].status = "Left"
    /\ ~(n \in members.failed_members /\ n \in members.left_members)
    /\ TablesOf(members, n) # {} => "states" \in TablesOf(members, n)

\* One node is Failed and the other Left, each listed in its own table, with
\* the membership clock at the highest value intents can bring it to.
FailedAndLeftWitness ==
  /\ \E n \in Nodes : n \in members.failed_members /\ members.states[n].status = "Failed"
  /\ \E n \in Nodes : n \in members.left_members /\ members.states[n].status = "Left"
  /\ clock = ClockCap

\* The status changes a step makes, as <<from, to>> pairs; a Member that is
\* purged has no status afterwards and makes no pair.
StatusChanges ==
  {<<members.states[n].status, members'.states[n].status>> :
     n \in {x \in Nodes : /\ members'.states[x] # NoMember
                           /\ members'.states[x].status # members.states[x].status}}

ListedTransitions ==
  {<<"NoMember", "Alive">>, <<"Alive", "Leaving">>, <<"Leaving", "Left">>,
   <<"Alive", "Failed">>, <<"Failed", "Alive">>, <<"Failed", "Left">>}

\* C8 as stated: every status change is one of None -> Alive, Alive -> Leaving,
\* Leaving -> Left, Alive -> Failed, Failed -> Alive, Failed -> Left.
OnlyListedTransitions == [][StatusChanges \subseteq ListedTransitions]_vars

\* C8, amended: every status change is one of the six listed transitions or
\* one of the two a fresher Join intent makes, Leaving -> Alive and Left -> Alive.
OnlyListedOrJoinTransitions ==
  [][StatusChanges \subseteq
       ListedTransitions \cup {<<"Leaving", "Alive">>, <<"Left", "Alive">>}]_vars

\* A fresher Join intent has just brought a member back to Alive while the
\* other node is Left.
JoinRevivesWitness ==
  /\ last.op = "notify_message"
  /\ last.msg.ty = "Join"
  /\ last.rebroadcast
  /\ members.states[last.msg.node].status = "Alive"
  /\ members.states[last.msg.node].status_time = MaxTime
  /\ \E n \in Nodes : members.states[n].status = "Left"

(***************************************************************************)
(* Properties of user events                                               *)
(***************************************************************************)

\* The latest call put a user event through handle_user_event.
UserEventCall(c) == c.op \in {"notify_message", "merge"} /\ c.msg.ty = "UserEvent"

\* C9: while a join with event_join_ignore set merges a push/pull state, no
\* user event with an ltime below the remote event_ltime reaches the user
\* event channel, neither from the event buckets nor from gossip that
\* notify_message handles while the merge is in progress.
JoinIgnoresOldEvents ==
  (/\ merge.pc = "running"
   /\ merge.is_join
   /\ event_join_ignore
   /\ UserEventCall(last)
   /\ last.rebroadcast)
  => last.msg.ltime >= merge.pp.event_ltime

EventClockCoversDelivered ==
  \A k \in EventKeys : event_tx[k] >= 1 => event_clock >= k.ltime

\* An event has been delivered whose ltime the event clock had already
\* reached, so the clock stands at that ltime and not past it.
DeliveredAtClockWitness ==
  \E k \in EventKeys :
    /\ event_tx[k] = 1
    /\ k.ltime = MaxTime
    /\ event_clock = k.ltime

\* C12: a notify_message call appends the message it received to a broadcast
\* queue exactly when the handler of its kind returned true, appends it once,
\* and appends it to the queue of its kind (Join and Leave to the membership
\* queue, UserEvent to the event queue, Query to the query queue); a call on a
\* QueryResponse or a Relay tag leaves every queue as it was.
RebroadcastIntoQueueOfKind ==
  [][\A buf \in pending :
       pending' = {} =>
         /\ ~last'.rebroadcast => queues' = queues
         /\ last'.rebroadcast =>
              /\ buf.body.ty \in {"Join", "Leave"} =>
                   queues' = [queues EXCEPT !.broadcasts = Append(@, buf.body)]
              /\ buf.body.ty = "UserEvent" =>
                   queues' = [queues EXCEPT !.event_broadcasts = Append(@, buf.body)]
              /\ buf.body.ty = "Query" =>
                   queues' = [queues EXCEPT !.query_broadcasts = Append(@, buf.body)]
              /\ buf.body.ty \in {"Join", "Leave", "UserEvent", "Query"}
         /\ (~buf.empty /\ buf.tag \in {5, 7}) => queues' = queues]_vars

\* A query has just gone to the query queue while the membership queue holds
\* an intent queued earlier.
QueryQueuedWitness ==
  /\ last.op = "notify_message"
  /\ last.msg.ty = "Query"
  /\ last.rebroadcast
  /\ queues.query_broadcasts = <<last.msg>>
  /\ Len(queues.broadcasts) = 1
  /\ queues.event_broadcasts = <<>>

\* C13: a notify_message call on bytes that are empty, that start with a tag
\* byte other than those of Leave, Join, UserEvent, Query, QueryResponse and
\* Relay, that do not decode, or that decode to a message of another kind than
\* the tag, calls no handler, queues nothing and leaves the node as it was; a
\* merge_remote_state call on bytes that are empty, that do not start with the
\* PushPull tag or that do not decode to a PushPull state leaves the clocks,
\* the members and the event state as they were.
MalformedInputDropped ==
  [][\A buf \in pending :
       LET Dispatched == {<<0, "Leave">>, <<1, "Join">>, <<3, "UserEvent">>,
                          <<4, "Query">>, <<5, "QueryResponse">>, <<7, "RelayBody">>}
           BadGossip == buf.empty \/ <<buf.tag, buf.body.ty>> \notin Dispatched
           BadState == buf.empty \/ buf.tag # 2 \/ buf.body.ty # "PushPull"
           MergeCall == /\ merge.pc = "idle"
                        /\ pending' = pending
                        /\ last'.op \in {"merge_remote_state", "merge_dropped"}
       IN /\ (pending' = {} /\ BadGossip) =>
               /\ last' = Call("notify_message", NoMsg, FALSE)
               /\ UNCHANGED <<clock, event_clock, query_clock, members, event_core,
                              query_core, event_tx, event_join_ignore, merge, queues>>
          /\ (MergeCall /\ BadState) =>
               UNCHANGED <<clock, event_clock, query_clock, members, event_core,
                           query_core, event_tx, event_join_ignore, merge, queues>>]_vars

\* merge_remote_state has just dropped a gossip Join handed to it as a remote
\* state, on a node that knows a member, has moved its clocks and holds a
\* broadcast in a queue.
GossipAsStateDroppedWitness ==
  /\ last.op = "merge_dropped"
  /\ pending = {Bytes(1, JoinMessage("A", MaxTime))}
  /\ members.states["A"] # NoMember
  /\ clock > 0
  /\ Len(queues.broadcasts) = 1

\* C14: broadcast_messages returns the membership broadcasts its queue chose
\* for the limit, then the query broadcasts chosen for what the membership
\* broadcasts left of the limit, then the event broadcasts chosen for what
\* both left, each group in the order its queue supplied it.
MembershipThenQueryThenEvent ==
  [][last'.op = "broadcast_messages" =>
       LET m == get_broadcasts(queues.broadcasts, out'.overhead, out'.limit)
           q == get_broadcasts(queues.query_broadcasts, out'.overhead, out'.query_limit)
           e == get_broadcasts(queues.event_broadcasts, out'.overhead, out'.event_limit)
       IN /\ out'.msgs = (m \o q) \o e
          /\ out'.query_limit = out'.limit - bytes_of(m, out'.overhead)
          /\ out'.event_limit =
               out'.limit - bytes_of(m, out'.overhead) - bytes_of(q, out'.overhead)
          /\ \A i \in 1..Len(out'.msgs), j \in 1..Len(out'.msgs) :
               (i < j /\ out'.msgs[i].ty = "UserEvent") => out'.msgs[j].ty = "UserEvent"
          /\ \A i \in 1..Len(out'.msgs), j \in 1..Len(out'.msgs) :
               (i < j /\ out'.msgs[j].ty = "Join") => out'.msgs[i].ty = "Join"]_vars

\* A call has returned broadcasts of all three queues while the limit kept a
\* queued event broadcast out.
ThreeQueuesWitness ==
  /\ last.op = "broadcast_messages"
  /\ Len(out.msgs) = 3
  /\ out.msgs[1].ty = "Join"
  /\ out.msgs[2].ty = "Query"
  /\ out.msgs[3].ty = "UserEvent"
  /\ out.event_limit < out.query_limit
  /\ out.event_limit < 2 * encoded_len(out.overhead, out.msgs[3])

FailedReapedAfterTombstone ==
  [][\A n \in Nodes :
       /\ (n \in members.failed_members /\ last'.op = "reap" /\ reaper'.next_sweep # reaper.next_sweep) =>
            IF reaper.now - reaper.leave_time[n] > TombstoneTimeout
            THEN /\ members'.states[n] = NoMember
                 /\ n \notin members'.failed_members
                 /\ reaper'.events[n] = 1
            ELSE /\ members'.states[n] = members.states[n]
                 /\ n \in members'.failed_members
                 /\ reaper'.events[n] = 0
       /\ (n \in members.failed_members /\ members'.states[n] = NoMember) =>
            reaper.now - reaper.leave_time[n] > TombstoneTimeout
       /\ n \in members'.failed_members =>
            reaper'.now - reaper'.leave_time[n] <= TombstoneTimeout + ReapInterval
       /\ reaper'.events[n] <= 1]_vars

\* A sweep has just removed node A, failed long enough ago, with one
\* MemberReap event, and has kept node B, which failed too recently.
ReapedOneKeptOtherWitness ==
  /\ last.op = "reap"
  /\ members.states["A"] = NoMember
  /\ reaper.events["A"] = 1
  /\ "B" \in members.failed_members
  /\ reaper.now - reaper.leave_time["B"] <= TombstoneTimeout
  /\ reaper.now - reaper.leave_time["A"] > TombstoneTimeout

\* C17: a boot from a snapshot log whose last event clock is E and last query
\* clock is Q sets event_min_time to E + 1 and query_min_time to Q + 1 and
\* leaves the three clocks at or above their recorded values, where they
\* stay; after the boot no user event with ltime <= E reaches the user event
\* channel, and a user event with ltime > E that the node has not seen since
\* and that the ring still covers does reach it.
RestartHidesOldEvents ==
  [][/\ (~snapshot.restarted /\ snapshot'.restarted) =>
          /\ event_core'.min_time = snapshot.event_clock + 1
          /\ query_core'.min_time = snapshot.query_clock + 1
     /\ snapshot'.restarted =>
          /\ clock' >= snapshot'.clock
          /\ event_clock' >= snapshot'.event_clock
          /\ query_clock' >= snapshot'.query_clock
          /\ \A k \in EventKeys : k.ltime <= snapshot'.event_clock => event_tx'[k] = 0
     /\ (snapshot.restarted /\ last'.op = "notify_message" /\ last'.msg.ty = "UserEvent"
           /\ <<last', event_clock', event_core'>> # <<last, event_clock, event_core>>) =>
          LET msg == last'.msg
              bucket == event_core.buffer[msg.ltime % EventBufferSize]
          IN (/\ msg.ltime > snapshot.event_clock
              /\ ~IsDuplicate(bucket, msg)
              /\ msg.ltime > event_clock' - EventBufferSize) =>
               event_tx'[EventKey(msg)] = event_tx[EventKey(msg)] + 1]_vars

\* The node has booted from its log; since the boot it has delivered an event
\* with an ltime above the recorded event clock and has just dropped one with
\* an ltime that is not above it.
FreshAfterRestartWitness ==
  /\ snapshot.restarted
  /\ event_core.min_time = snapshot.event_clock + 1
  /\ query_core.min_time = snapshot.query_clock + 1
  /\ \E k \in EventKeys : k.ltime > snapshot.event_clock /\ event_tx[k] = 1
  /\ last.op = "notify_message" /\ last.msg.ty = "UserEvent"
  /\ last.msg.ltime <= snapshot.event_clock
  /\ ~last.rebroadcast

\* C18: a join call returns success if and only if at least one of the given
\* peers was joined, whether or not the broadcast of the join went out; when
\* it fails the JoinError holds the errors of the peers.
JoinSucceedsIffSomePeerJoined ==
  join_result.result # "none" =>
    /\ join_result.result = "Ok" <=> join_result.joined # {}
    /\ join_result.result = "JoinError" => join_result.errors # {}

IncrementReturnsFreshValue ==
  \A p \in Threads :
    threads[p].pc = "incremented" =>
      /\ threads[p].current = threads[p].start + 1
      /\ \A q \in Threads \ {p} :
           threads[q].pc = "incremented" => threads[q].current # threads[p].current

\* C21: a new LamportClock reads 0; a witness(t) with t smaller than the value
\* of the clock leaves the clock unchanged; and witness is idempotent: a second
\* witness(t) right after the first leaves the clock where the first put it.
WitnessIdempotent ==
  /\ clock = 0
  /\ [](\A p \in Threads :
          (threads[p].pc = "returned" /\ ~threads[p].dirty) =>
            /\ threads[p].time < threads[p].start => clock = threads[p].start
            /\ threads[p].prior # -1 => clock = threads[p].start)

\* A witness(t) moved the clock to t + 1, and the same call made again has
\* returned with the clock still there.
WitnessTwiceWitness ==
  \E p \in Threads :
    /\ threads[p].pc = "returned"
    /\ ~threads[p].dirty
    /\ threads[p].prior # -1
    /\ threads[p].prior < threads[p].time
    /\ threads[p].time > 0
    /\ clock = threads[p].time + 1

\* C28: an intent for a node that is in none of the membership tables adds no
\* member and moves no member between the tables (so no member event is due);
\* it is stored in the recent-intent ring under its NodeId unless the ring
\* holds an intent for that node with the same or a higher ltime, which stays;
\* and the handler returns rebroadcast = true.
UnknownNodeIntentStashed ==
  [][\A msg \in pending \ pending' :
       (msg.ty \in {"Join", "Leave"} /\ TablesOf(members, msg.node) = {}) =>
         LET held == members.recent_intents[msg.node] IN
         /\ members'.states = members.states
         /\ members'.failed_members = members.failed_members
         /\ members'.left_members = members.left_members
         /\ members'.recent_intents =
              [members.recent_intents EXCEPT
                 ![msg.node] = IF held = NoIntent \/ msg.ltime > held.ltime
                               THEN [ty |-> msg.ty, ltime |-> msg.ltime]
                               ELSE held]
         /\ last' = Call("notify_message", msg, TRUE)]_vars

\* The latest intent for an unknown node came with a lower ltime than the one
\* the ring holds for the node: the ring kept its entry and the intent was
\* rebroadcast.
LowerIntentKeptOutWitness ==
  /\ last.op = "notify_message"
  /\ last.msg.ty \in {"Join", "Leave"}
  /\ last.rebroadcast
  /\ TablesOf(members, last.msg.node) = {}
  /\ members.recent_intents[last.msg.node] # NoIntent
  /\ members.recent_intents[last.msg.node].ltime > last.msg.ltime

(***************************************************************************)
(* Properties of merge_remote_state                                        *)
(***************************************************************************)

\* The step is a handler call made by the merge in progress.
MergeHandles(ty) ==
  /\ merge.pc = "running" /\ merge'.pc = "running"
  /\ merge' # merge
  /\ last'.op = "merge" /\ last'.msg.ty = ty

\* The three clocks have witnessed the times of the push/pull state in progress.
ClocksWitnessed ==
  /\ clock >= WitnessRemote(merge.pre[1], merge.pp.ltime)
  /\ event_clock >= WitnessRemote(merge.pre[2], merge.pp.event_ltime)
  /\ query_clock >= WitnessRemote(merge.pre[3], merge.pp.query_ltime)

LeftMembersNeverJoined ==
  [][LET sl == merge.pp.status_ltimes
         to_join == (DOMAIN sl) \ merge.pp.left_members
         node == last'.msg.node
     IN /\ MergeHandles("Join") =>
             /\ node \notin merge.pp.left_members
             /\ node \in merge.joins
             /\ merge'.joins = merge.joins \ {node}
             /\ last'.msg = JoinMessage(node, sl[node])
        /\ (merge.pc = "running" /\ merge' # merge) =>
             \A n \in merge.pp.left_members :
               members'.states[n].status = "Alive" => members.states[n].status = "Alive"
        /\ (merge.pc = "running" /\ merge'.pc = "running") =>
             /\ merge.joins \subseteq to_join
             /\ \A n \in merge.joins \ merge'.joins :
                  MergeHandles("Join") /\ node = n
        /\ (merge.pc = "idle" /\ merge'.pc = "running") =>
             merge'.joins = (DOMAIN merge'.pp.status_ltimes) \ merge'.pp.left_members
        /\ (merge.pc = "running" /\ merge'.pc = "idle") => merge.joins = {}]_vars

\* A merge has gone through both loops of a push/pull state that lists a node
\* this node holds as Leaving or Left among left_members, with an ltime that
\* a Join intent would have taken as fresh, and another node to join.
LeftNodeSkippedWitness ==
  /\ merge.pc = "running"
  /\ merge.left = {} /\ merge.joins = {}
  /\ last.op = "merge" /\ last.msg.ty = "Join"
  /\ \E n \in merge.pp.left_members \cap DOMAIN merge.pp.status_ltimes :
       /\ members.states[n].status \in {"Leaving", "Left"}
       /\ n # last.msg.node

\* C27: merge_remote_state changes event_min_time only when is_join and
\* event_join_ignore are both true, and then to the maximum of its old value
\* and the remote event_ltime; every other step of a merge leaves event_min_time
\* alone, so event_min_time never decreases.
MinTimeRaisedOnlyOnIgnoredJoin ==
  [][/\ event_core'.min_time =
          IF /\ merge.pc = "running" /\ ~merge.min_done /\ merge'.min_done
             /\ merge.is_join /\ event_join_ignore
          THEN Max(event_core.min_time, merge.pp.event_ltime)
          ELSE event_core.min_time
     /\ event_core'.min_time >= event_core.min_time]_vars

\* The merge of a join that ignores old events has kept an event_min_time that
\* was above the remote event_ltime.
MinTimeKeptAboveRemoteWitness ==
  /\ merge.pc = "running"
  /\ merge.min_done
  /\ merge.is_join /\ event_join_ignore
  /\ merge.pp.event_ltime > 0
  /\ event_core.min_time > merge.pp.event_ltime

(***************************************************************************)
(* Properties of the internal-query stage                                  *)
(***************************************************************************)

Converts(node) == node.meta_len <= META_MAX_SIZE /\ node.tags_decode

\* C23: notify_alive and notify_merge accept a set of peers if and only if no
\* user delegate is configured, or every peer converts to a Member (meta within
\* META_MAX_SIZE, tags decode) and the user delegate's notify_merge returns Ok;
\* with a delegate configured, a peer that fails conversion keeps the delegate
\* from being invoked and the error of the first such peer is returned,
\* TagsTooLarge when its meta is oversize.
PeersAcceptedIffConvertAndDelegateOk ==
  last.op \in {"notify_alive", "notify_merge"} =>
    LET peers == last.peers
        r == last.returned
        all_convert == \A i \in 1..Len(peers) : Converts(peers[i])
    IN /\ r.result = "Ok" <=>
            (last.delegate = "None" \/ (all_convert /\ last.delegate = "Accepts"))
       /\ r.invoked <=> (last.delegate # "None" /\ all_convert)
       /\ (last.delegate # "None" /\ ~all_convert) =>
            LET first == CHOOSE i \in 1..Len(peers) :
                           ~Converts(peers[i]) /\ \A j \in 1..(i - 1) : Converts(peers[j])
            IN r.result = IF peers[first].meta_len > META_MAX_SIZE
                          THEN "TagsTooLarge" ELSE "Transform"

\* notify_merge met a delegate that accepts and peers of which the last has
\* oversize meta: TagsTooLarge came back and the delegate was not asked.
OversizePeerWitness ==
  /\ last.op = "notify_merge"
  /\ last.delegate = "Accepts"
  /\ Len(last.peers) = MaxPeers
  /\ Converts(last.peers[1])
  /\ last.peers[MaxPeers].meta_len > META_MAX_SIZE
  /\ last.returned.result = "TagsTooLarge"
  /\ ~last.returned.invoked

(***************************************************************************)
(* Properties of the list-keys response                                    *)
(***************************************************************************)

RelaySendsInnerBytes ==
  [][\A buf \in pending :
       (pending' = {} /\ ~buf.empty /\ buf.tag = 7 /\ buf.body.ty = "RelayBody") =>
         LET raw == buf.body.raw
             Decodable == \E k \in 1..Len(raw) :
                            SubSeq(raw, 1, k) = encode_node(SubSeq(raw, 2, k))
         IN /\ UNCHANGED <<clock, event_clock, query_clock, members, event_core,
                           query_core, event_tx, event_join_ignore, merge, queues>>
            /\ last'.msg = NoMsg
            /\ ~last'.rebroadcast
            /\ IF Decodable
               THEN /\ last'.op = "relay"
                    /\ <<buf.tag>> \o encode_node(last'.dest) \o last'.sent
                         = <<buf.tag>> \o raw
               ELSE last' = Call("notify_message", NoMsg, FALSE)]_vars

\* A Relay message was passed on, its send failed, and the bytes sent are a
\* user event the node has not handled: the node holds its own earlier events
\* and broadcasts untouched.
RelayFailedSendWitness ==
  /\ last.op = "relay"
  /\ ~last.ok
  /\ last.dest = <<2>>
  /\ last.sent = <<3>>
  /\ pending = {}
  /\ event_clock > 0
  /\ Len(queues.event_broadcasts) = 1

\* C30: with coordinates, ack_payload returns the PING_VERSION byte followed by
\* the encoded coordinate of the node, and notify_ping_complete on a node with
\* coordinates that is given the ack_payload of a peer with coordinates decodes
\* the peer's coordinate from it; without coordinates ack_payload returns no
\* bytes, and notify_ping_complete on no bytes decodes nothing and leaves the
\* coordinates as they were.
AckPayloadRoundTrip ==
  [][/\ last'.op = "ack_payload" =>
          last'.payload = (IF coord_core.enabled
                           THEN <<PING_VERSION>> \o coordinate_bytes(coord_core.coordinate)
                           ELSE <<>>)
     /\ last'.op = "notify_ping_complete" =>
          /\ \A peer \in PeerCoordCores :
               (coord_core.enabled /\ peer.enabled /\ last'.payload = ack_payload(peer)) =>
                 last'.decoded = peer.coordinate
          /\ last'.payload = <<>> =>
               (last'.decoded = NoCoordinate /\ coord_core' = coord_core)]_vars

\* Without coordinates ack_payload returns no bytes; notify_ping_complete on no
\* bytes decodes nothing and leaves the coordinates as they were.
EmptyPayloadIgnored ==
  [][/\ (last'.op = "ack_payload" /\ ~coord_core.enabled) => last'.payload = <<>>
     /\ (last'.op = "notify_ping_complete" /\ last'.payload = <<>>) =>
          (last'.decoded = NoCoordinate /\ coord_core' = coord_core)]_vars

\* A node with coordinates has been given the ack of a peer with coordinates
\* and has decoded no coordinate from it, after a ping whose payload did carry
\* one had moved its own coordinate.
AckPayloadLostWitness ==
  /\ last.op = "notify_ping_complete"
  /\ coord_core.enabled
  /\ coord_core.coordinate # Origin
  /\ last.payload = <<PING_VERSION>>
  /\ last.decoded = NoCoordinate

\* C31: when a ping to node N completes on a node with coordinates, with a
\* payload of the PING_VERSION byte followed by the encoding of coordinate C,
\* client.update is called for N with C and the round-trip time measured; if
\* the update is accepted the cache then maps N to C and the local id to the
\* client's new coordinate; on a payload of another version, on a coordinate
\* that does not decode and on a rejected update the cache is left as it was.
PingUpdatesClientWithRemote ==
  [][(last'.op = "notify_ping_complete" /\ coord_core.enabled) =>
       LET p == last'.payload
           WellFormed == /\ Len(p) > 0
                         /\ p[1] = PING_VERSION
                         /\ \E c \in Coordinates : Tail(p) = coordinate_bytes(c)
           C == CHOOSE c \in Coordinates : Tail(p) = coordinate_bytes(c)
       IN IF WellFormed
          THEN /\ last'.update = Update(last'.node, C, last'.rtt)
               /\ IF last'.after # NoCoordinate
                  THEN /\ coord_core'.coordinate = last'.after
                       /\ coord_core'.cache =
                            [coord_core.cache EXCEPT ![last'.node] = C,
                                                     ![LocalId] = last'.after]
                  ELSE coord_core' = coord_core
          ELSE /\ last'.update = NoUpdate
               /\ coord_core' = coord_core]_vars

\* The cache after a ping: an accepted update on a well-formed payload caches
\* the decoded coordinate for the node pinged and the client's new coordinate
\* for the local id; anything else leaves the cache as it was.
PingCachesDecoded ==
  [][(last'.op = "notify_ping_complete" /\ coord_core.enabled) =>
       IF last'.after # NoCoordinate
       THEN coord_core'.cache = [coord_core.cache EXCEPT ![last'.node] = last'.decoded,
                                                         ![LocalId] = coord_core'.coordinate]
       ELSE coord_core' = coord_core]_vars

\* C32: when broadcast_messages has read the three queues, its running byte
\* count is the sum of the encoded lengths of the messages it returns, each
\* membership, query and event message counted once.
BytesUsedCountsEachOnce ==
  [][last'.op = "broadcast_messages" =>
       out'.bytes_used = bytes_of(out'.msgs, out'.overhead)]_vars

\* The count is right up to the second get_broadcasts call: the budget of the
\* event queue is the limit less the membership and query messages returned.
BytesUsedRightBeforeEvents ==
  [][last'.op = "broadcast_messages" =>
       out'.limit - out'.event_limit =
         bytes_of(SelectSeq(out'.msgs, LAMBDA m : m.ty # "UserEvent"), out'.overhead)]_vars

\* C33: merge_remote_state subtracts from no Lamport time that is zero: for each
\* of ltime, event_ltime and query_ltime of the PushPull that is 0 the local
\* clock of that kind stays as it was, and for a value v above 0 the clock is
\* what witness(v - 1) makes of it: unchanged if it was at least v - 1, else v.
ZeroLtimeNotSubtracted ==
  [][(merge.pc = "idle" /\ merge'.pc = "running") =>
       LET Witnessed(c, v) == IF v = 0 \/ c >= v - 1 THEN c ELSE v
       IN /\ clock' = Witnessed(clock, merge'.pp.ltime)
          /\ event_clock' = Witnessed(event_clock, merge'.pp.event_ltime)
          /\ query_clock' = Witnessed(query_clock, merge'.pp.query_ltime)]_vars

\* A merge of a PushPull with ltime 0 and the other two times above zero has
\* begun on a node whose membership clock had moved: that clock is where it
\* was, the other two are at the remote values.
ZeroLtimeMergedWitness ==
  /\ merge.pc = "running"
  /\ merge.pp.ltime = 0
  /\ merge.pp.event_ltime = MaxTime
  /\ merge.pp.query_ltime = 1
  /\ merge.pre[1] > 0
  /\ clock = merge.pre[1]
  /\ event_clock = MaxTime
  /\ query_clock = merge.pre[3]

\* C34: for a node of left_members that has no entry in status_ltimes,
\* merge_remote_state makes neither a Leave nor a Join intent and changes
\* nothing; every other left member gets its Leave intent, every other entry of
\* status_ltimes its Join intent and every event of the buckets goes through
\* handle_user_event before the merge returns.
MissingStatusSkipped ==
  [][LET pp == merge.pp
         Missing == pp.left_members \ DOMAIN pp.status_ltimes
     IN /\ (merge.pc = "idle" /\ merge'.pc = "running") =>
             /\ merge'.left = merge'.pp.left_members
             /\ merge'.joins = (DOMAIN merge'.pp.status_ltimes) \ merge'.pp.left_members
             /\ merge'.events = merge'.pp.events
        /\ (merge.pc = "running" /\ merge' # merge) =>
             /\ (last'.op = "merge" /\ last'.msg.ty \in {"Join", "Leave"}) =>
                  last'.msg.node \notin Missing
             /\ merge'.pc = "running" =>
                  /\ \A n \in merge.left \ merge'.left :
                       IF n \in Missing
                       THEN /\ last'.op = "merge_skip"
                            /\ UNCHANGED <<clock, event_clock, query_clock, members,
                                           event_core, event_tx, queues>>
                       ELSE last' = Call("merge", LeaveMessage(n, pp.status_ltimes[n], FALSE),
                                         last'.rebroadcast)
                  /\ \A n \in merge.joins \ merge'.joins :
                       last' = Call("merge", JoinMessage(n, pp.status_ltimes[n]),
                                    last'.rebroadcast)
                  /\ merge'.events # merge.events =>
                       /\ merge'.events = Tail(merge.events)
                       /\ last' = Call("merge", Head(merge.events), last'.rebroadcast)
             /\ merge'.pc = "idle" =>
                  (merge.left = {} /\ merge.joins = {} /\ merge.events = <<>>)]_vars

\* A merge has gone through a push/pull state that lists A and B as left and
\* has a status ltime for B only: B, known before, has left, A is as unknown as
\* before, and the event of the bucket has been delivered.
MissingStatusSkippedWitness ==
  /\ MergeDone
  /\ merge.pp.left_members = {"A", "B"}
  /\ DOMAIN merge.pp.status_ltimes = {"B"}
  /\ merge.pp.events # <<>>
  /\ members.states["A"] = NoMember
  /\ members.states["B"] # NoMember
  /\ members.states["B"].status = "Leaving"
  /\ event_tx[EventKey(UserEventMessage(MaxTime, "deploy"))] = 1

\* C35: for every time t of the clock's width, the largest included, a
\* witness(t) call does not abort, and the exchange it makes does not put the
\* clock below the value it replaces.
WitnessNeverWrapsOrAborts ==
  [][\A p \in Threads :
       threads[p].pc = "cas" =>
         /\ threads'[p].pc # "panicked"
         /\ threads'[p].pc = "returned" => clock' >= clock]_vars

\* Below the largest time the exchange of witness(t) raises the clock to t + 1.
WitnessBelowMaxRaises ==
  [][\A p \in Threads :
       (threads[p].pc = "cas" /\ threads[p].time < MaxClock) =>
         /\ threads'[p].pc # "panicked"
         /\ threads'[p].pc = "returned" => (clock' = threads[p].time + 1 /\ clock' > clock)]_vars

\* C36: with the caller scheduled fairly and the other threads writing the
\* clock finitely often, every witness(t) call returns; a retry of its loop
\* follows a failed exchange, the value it reads on a retry is not below the
\* value it read before, and the call returns once the clock it reads is at
\* least t or its exchange has succeeded.
WitnessCallReturns ==
  /\ (threads[Caller].pc = "load") ~> (threads[Caller].pc = "returned")
  /\ [][LET th == threads[Caller]
            nx == threads'[Caller]
        IN /\ (th.pc = "load" /\ nx.pc # "load") =>
                /\ clock >= th.current
                /\ nx.current = clock
                /\ clock >= th.time => nx.pc = "returned"
           /\ (th.pc \notin {"idle", "load"} /\ nx.pc = "load") =>
                (th.pc = "cas" /\ clock' = clock)
           /\ (th.pc = "cas" /\ clock' # clock /\ nx.dirty = th.dirty) =>
                nx.pc = "returned"]_vars

\* C37: no step of merge_remote_state puts anything on the membership, event
\* or query broadcast queue, whatever its handlers say about rebroadcasting.
MergeQueuesNothing ==
  [][(merge.pc = "running" \/ merge'.pc = "running") => queues' = queues]_vars

\* A merge has handed an event to handle_user_event, the handler has asked for
\* its rebroadcast, and the queues hold what gossip had put there and no more.
MergeRebroadcastDroppedWitness ==
  /\ merge.pc = "running"
  /\ last.op = "merge"
  /\ last.msg.ty = "UserEvent"
  /\ last.rebroadcast
  /\ queues.event_broadcasts = <<UserEventMessage(1, "build")>>
  /\ Len(queues.broadcasts) = 1

\* C38: with queues whose get_broadcasts(overhead, l) stays within l and an
\* encoded_len that is the length of the message plus the overhead, the budgets
\* broadcast_messages offers to the query queue and to the event queue (the
\* limit less the bytes used so far) are not below zero, so the unsigned
\* subtraction does not underflow, and the encoded lengths of the messages
\* returned add up to the limit at most.
BudgetNeverUnderflows ==
  [][last'.op = "broadcast_messages" =>
       /\ out'.query_limit >= 0
       /\ out'.event_limit >= 0
       /\ out'.event_limit <= out'.query_limit
       /\ out'.query_limit <= out'.limit
       /\ bytes_of(out'.msgs, out'.overhead) <= out'.limit]_vars

\* A call whose membership and query broadcasts have used up the limit to the
\* last byte while an event broadcast was queued: the event queue was offered
\* nothing and gave nothing.
BudgetUsedUpWitness ==
  /\ last.op = "broadcast_messages"
  /\ out.limit > 0
  /\ out.query_limit > 0
  /\ out.event_limit = 0
  /\ Len(out.msgs) = 2
  /\ out.msgs[1].ty = "Join"
  /\ out.msgs[2].ty = "Query"
  /\ queues.event_broadcasts # <<>>


\* C39: merging the bytes of local_state into the node that produced them, with
\* is_join false and nothing in between, changes no clock, no member's status
\* or status ltime, and delivers no user event.
SelfMergeIsNoOp ==
  [][(\/ Idle /\ merge'.pc = "running" /\ ~merge'.is_join /\ merge'.pp = LocalPushPull
      \/ merge.pc = "running" /\ ~merge.is_join /\ merge.pp = LocalPushPull)
       => /\ UNCHANGED <<clock, event_clock, query_clock>>
          /\ members'.states = members.states
          /\ event_tx' = event_tx]_vars

\* A merge of the node's own state has gone through a left member, another
\* member and a bucket of the ring, and all three were turned down.
SelfMergeWitness ==
  /\ merge.pc = "running"
  /\ merge.pp = LocalPushPull
  /\ merge.pp.left_members # {}
  /\ DOMAIN merge.pp.status_ltimes = Nodes
  /\ merge.pp.ltime > 0
  /\ MergeDone
  /\ last.op = "merge" /\ last.msg.ty = "UserEvent" /\ ~last.rebroadcast


\* C40: the delegate's handle of the Serf root is set at most once: the first
\* store installs its handle, a later store leaves that handle in place, and a
\* callback that begins after the first store gets that handle and keeps it.
SerfStoredOnce ==
  [][/\ serf # NoSerf => serf' = serf
     /\ (last'.op = "store" /\ serf = NoSerf) => serf' = last'.s
     /\ \A p \in Threads :
          /\ (callbacks[p].pc = "idle" /\ callbacks'[p].pc = "running" /\ serf # NoSerf)
               => callbacks'[p].this = serf
          /\ (callbacks[p].pc = "running" /\ callbacks'[p].pc = "running")
               => callbacks'[p].this = callbacks[p].this]_vars

\* A store with another handle than the one in place has returned, and a
\* callback in progress holds the handle in place.
SecondStoreIgnoredWitness ==
  /\ last.op = "store"
  /\ serf # NoSerf
  /\ last.s # serf
  /\ \E p \in Threads : callbacks[p].pc = "running" /\ callbacks[p].this = serf
  /\ \E p \in Threads : callbacks[p].pc = "idle"

====
